---- MODULE Spec2Model ----
(***************************************************************************)
(* Voting and vote aggregation of the feature-voting system.               *)
(*                                                                         *)
(* The Voting Service (voting-service/server.js) issues its SQL through    *)
(* pool.execute, one autocommit statement per call, against InnoDB tables  *)
(* (03-sample-data.sql) whose AFTER triggers (0-triggers.sql) recompute    *)
(* the feature counters.  One request is a sequence of statements; other   *)
(* requests run between them.  A data-changing statement is two steps:     *)
(*   write   - the row change (row and unique-key locks, the foreign-key   *)
(*             check's shared lock on the feature) and the trigger's       *)
(*             SELECT COUNT, a consistent read: committed rows plus the    *)
(*             transaction's own changes;                                  *)
(*   update  - the trigger's UPDATE features (exclusive lock on the        *)
(*             feature row) and, outside a transaction, the commit.        *)
(* Uncommitted changes are kept per request in txn; votes and features     *)
(* hold the committed state.                                               *)
(***************************************************************************)
EXTENDS Integers, FiniteSets, Sequences, TLC

\* ------------------------------------------------------------------ bounds
NumProcs == 2
MaxReq == 2
MaxOps == 2
MaxRaceReq == 3
MaxSeqReq == 4
MaxCastReq == 4
MaxReadReq == 3
MaxBulkOps == 3
NumUsers == 3
NumFeatures == 1
MaxPutReq == 4
MaxSoloReq == 4
MaxErrReq == 3
MaxIsoReq == 3
MaxHealReq == 2
MaxOwnReq == 3
MaxHealOps == 1
MaxSkew == 2
MaxRateReq == 4
RateLimit == 2
WindowTicks == 2
MaxTicks == 3
MaxLookReq == 3
MaxDelReq == 3

Procs == 1..NumProcs
Users == 1..NumUsers
\* feature ids a request may name: the existing ones and one that never exists
FeatureIds == 1..(NumFeatures + 1)
VoteTypes == {"upvote", "downvote"}
Statuses == {"pending", "approved", "rejected", "implemented", "archived"}

\* the user who created every feature of the initial state
Owner == 1
\* the x-user-role header is 'admin' for these users
Admins == {Owner}

\* ------------------------------------------------------------------ state
VARIABLES
    votes,      \* committed rows of table votes: [id, user_id, feature_id, vote_type]
    features,   \* committed rows of table features, by id
    nextId,     \* AUTO_INCREMENT of votes.id
    pc,         \* per request slot: the statement the handler runs next
    req,        \* per slot: the request (user, role, parameters)
    loc,        \* per slot: the handler's local variables
    txn,        \* per slot: the uncommitted changes and locks of its connection
    res,        \* the last response sent
    nreq,       \* requests started so far
    log,        \* the last limits.logged responses sent, oldest first
    limits,     \* of the run: requests admitted, responses kept in log, operations per
                \* batch, features at the start
    cache,      \* the Feature service's in-memory cache of GET /features/:id, by id
    limiter     \* the voting limiter: its clock, and per key the hits of the window and its end

vars == <<votes, features, nextId, pc, req, loc, txn, res, nreq, log, limits, cache, limiter>>
data == <<votes, features, nextId, txn>>

NoRow == [id |-> 0, user_id |-> 0, feature_id |-> 0, vote_type |-> "none"]
NoCounts == [upvotes |-> 0, downvotes |-> 0, total |-> 0]
NoFeature == [user_id |-> 0, status |-> "none",
              votes_count |-> 0, upvotes_count |-> 0, downvotes_count |-> 0]
\* solo and before are history: did the request run with no other request in
\* flight, and the feature's counters when it arrived (kept when limits.logged > 0)
NoReq == [op |-> "none", user |-> 0, role |-> "user", feature_id |-> 0, vote_id |-> 0,
          vote_type |-> "none", solo |-> FALSE, before |-> NoCounts]
NoOp == [action |-> "none", feature_id |-> 0, vote_id |-> 0, vote_type |-> "none"]
\* wrote is history: the counters the request's own trigger persisted (kept when
\* limits.logged > 0)
NoLoc == [existing |-> NoRow, action |-> "none", voteId |-> 0, op |-> NoOp, results |-> <<>>,
          wrote |-> {}, feature |-> NoFeature]
\* kept is history: a statement of the connection changed the vote rows and
\* committed on its own, after the connection's transaction had ended (recorded
\* when limits.logged > 0)
\* conn: the request holds a pooled connection (pool.getConnection); ends and
\* releases are history: how often the transaction the request began has ended, and
\* how often the connection went back to the pool
NoTxn == [wr |-> {}, trig |-> {}, fw |-> {}, snap |-> {}, hasSnap |-> FALSE, intx |-> FALSE,
          kept |-> FALSE, conn |-> FALSE, ends |-> 0, releases |-> 0]
NoRes == [status |-> 0, error |-> "none", op |-> "none", user |-> 0, feature_id |-> 0,
          action |-> "none", vote_type |-> "none", vote_id |-> 0,
          upvotes |-> 0, downvotes |-> 0, total |-> 0, vote |-> NoRow, results |-> <<>>,
          asked |-> "none", solo |-> FALSE, before |-> NoCounts, retryAfter |-> 0,
          ended |-> 0, released |-> 0]

\* const VOTE_RATE_LIMIT = parseInt(process.env.VOTE_RATE_LIMIT) || 10
VOTE_RATE_LIMIT == 10

\* the limiter before its first request: the limit, the clock, whether the store keeps
\* one window per key or empties all keys on one timer, and for each key the hits of
\* its window, the window's end and (history) the times its requests passed
NoHits == [max |-> VOTE_RATE_LIMIT, now |-> 0, perKey |-> FALSE,
           hits |-> [k \in Users |-> 0], resetAt |-> [k \in Users |-> 0],
           passed |-> [k \in Users |-> <<>>]]

\* ------------------------------------------------------------------ tables
\* CREATE TABLE features: the columns the voting core reads and writes
NewFeature(owner) ==
    [user_id |-> owner, status |-> "pending",
     votes_count |-> 0, upvotes_count |-> 0, downvotes_count |-> 0]

\* faulty variant of VoteCounts: the upvote count without its CASE WHEN, every row
\* of the feature counted as an upvote
VoteCountsAnyType(rows, f) ==
    [upvotes |-> Cardinality({r \in rows : r.feature_id = f}),
     downvotes |-> Cardinality({r \in rows : r.feature_id = f /\ r.vote_type = "downvote"})]

\* SELECT COUNT(CASE WHEN vote_type = 'upvote' ...), COUNT(CASE WHEN 'downvote' ...)
\* FROM votes WHERE feature_id = f
VoteCounts(rows, f) ==
    [upvotes |-> Cardinality({r \in rows : r.feature_id = f /\ r.vote_type = "upvote"}),
     downvotes |-> Cardinality({r \in rows : r.feature_id = f /\ r.vote_type = "downvote"})]

\* the rows a transaction sees of a base version: its own changes replace the base's
ApplyWrites(base, wr) ==
    {r \in base : ~\E w \in wr : w.row.id = r.id}
        \cup {w.row : w \in {x \in wr : x.kind \in {"ins", "upd"}}}

\* the consistent read of a trigger: the transaction's read view, or the committed
\* rows when the read opens the view
ReadView(p) == IF txn[p].hasSnap THEN txn[p].snap ELSE votes

\* faulty variant: the trigger's SELECT without WHERE feature_id = ...
RecomputeAnyFeature(rows, f) ==
    [feature_id |-> f,
     upvotes |-> Cardinality({r \in rows : r.vote_type = "upvote"}),
     downvotes |-> Cardinality({r \in rows : r.vote_type = "downvote"})]

\* the trigger bodies: the counters the trigger will write to features
RecomputeFor(rows, f) ==
    [feature_id |-> f, upvotes |-> VoteCounts(rows, f).upvotes,
     downvotes |-> VoteCounts(rows, f).downvotes]

\* faulty variant: no trigger after INSERT, the counters keep their old values
no_votes_count_after_insert(rows, new) == {}

update_votes_count_after_insert(rows, new) == {RecomputeFor(rows, new.feature_id)}

update_votes_count_after_update(rows, old, new) ==
    IF old.vote_type # new.vote_type THEN {RecomputeFor(rows, new.feature_id)} ELSE {}

\* faulty variant: no trigger after DELETE, the counters keep the deleted vote
no_votes_count_after_delete(rows, old) == {}

update_votes_count_after_delete(rows, old) == {RecomputeFor(rows, old.feature_id)}

\* UPDATE features SET votes_count = up - down, upvotes_count = up, downvotes_count = down
\* WHERE id = feature_id (no row when the feature is gone)
WriteCounters(fs, t) ==
    IF t.feature_id \in DOMAIN fs
    THEN [fs EXCEPT ![t.feature_id] =
            [@ EXCEPT !.votes_count = t.upvotes - t.downvotes,
                      !.upvotes_count = t.upvotes,
                      !.downvotes_count = t.downvotes]]
    ELSE fs

RECURSIVE WriteAllCounters(_, _)
WriteAllCounters(fs, ts) ==
    IF ts = {} THEN fs
    ELSE LET t == CHOOSE x \in ts : TRUE
         IN WriteAllCounters(WriteCounters(fs, t), ts \ {t})

\* ------------------------------------------------------------------ locks
\* InnoDB record locks a connection holds until its transaction ends: the rows it
\* changed, their unique_user_feature_vote keys, a shared lock on the feature of
\* every inserted vote (foreign key check), an exclusive lock on every feature row
\* its triggers updated
NoLocks == [ids |-> {}, keys |-> {}, s |-> {}, x |-> {}]

Holds(q) ==
    [ids |-> {w.row.id : w \in txn[q].wr},
     keys |-> {<<w.row.user_id, w.row.feature_id>> : w \in txn[q].wr},
     s |-> {w.row.feature_id : w \in {y \in txn[q].wr : y.kind \in {"ins", "insdel"}}},
     x |-> {t.feature_id : t \in txn[q].fw}]

InsertLocks(u, f) == [NoLocks EXCEPT !.keys = {<<u, f>>}, !.s = {f}]
RowLocks(id) == [NoLocks EXCEPT !.ids = {id}]
TriggerLocks(p) == [NoLocks EXCEPT !.x = {t.feature_id : t \in txn[p].trig}]

\* DELETE FROM features locks the feature row and, for the cascade, its vote rows
FeatureDeleteLocks(f) ==
    [NoLocks EXCEPT !.ids = {v.id : v \in {r \in votes : r.feature_id = f}}, !.x = {f}]

\* the locks the next statement of the bulk runner asks for
BulkOpLocks(p) ==
    LET op == loc[p].op
    IN  IF op.action = "create" /\ op.feature_id # 0 /\ op.vote_type # "none"
        THEN InsertLocks(req[p].user, op.feature_id)
        ELSE IF op.action = "update" /\ op.vote_id # 0 /\ op.vote_type # "none"
        THEN RowLocks(op.vote_id)
        ELSE IF op.action = "delete" /\ op.vote_id # 0
        THEN RowLocks(op.vote_id)
        ELSE NoLocks

\* the locks the statement a slot runs next asks for
Wants(p) ==
    CASE pc[p] = "cast_write" ->
            IF loc[p].existing = NoRow
            THEN InsertLocks(req[p].user, req[p].feature_id)
            ELSE RowLocks(loc[p].existing.id)
      [] pc[p] \in {"put_write", "del_write"} -> RowLocks(req[p].vote_id)
      [] pc[p] \in {"cast_trig", "put_trig", "del_trig", "bulk_trig"} -> TriggerLocks(p)
      [] pc[p] = "bulk_write" -> BulkOpLocks(p)
      [] pc[p] = "fdel_write" -> FeatureDeleteLocks(req[p].feature_id)
      [] OTHER -> NoLocks

Conflict(w, h) ==
    \/ w.ids \cap h.ids # {}
    \/ w.keys \cap h.keys # {}
    \/ w.s \cap h.x # {}
    \/ w.x \cap (h.s \cup h.x) # {}

\* p waits for a lock q holds
Waits(p, q) == p # q /\ Conflict(Wants(p), Holds(q))
\* p and q ask for the exclusive lock of the same feature row: q's request may be
\* queued ahead of p's
MayQueue(p, q) == p # q /\ Wants(p).x \cap Wants(q).x # {}

Blocked(p) == \E q \in Procs : Waits(p, q)

\* a cycle of waiting connections, at least one edge of it a held lock
IsCycle(c) ==
    LET n == Len(c)
        nxt(i) == c[(i % n) + 1]
    IN  /\ \A i, j \in 1..n : i # j => c[i] # c[j]
        /\ \A i \in 1..n : Waits(c[i], nxt(i)) \/ MayQueue(c[i], nxt(i))
        /\ \E i \in 1..n : Waits(c[i], nxt(i))

Deadlocked(p) ==
    \E n \in 2..NumProcs : \E c \in [1..n -> Procs] : c[1] = p /\ IsCycle(c)

\* ------------------------------------------------------------------ statements
\* the latest committed rows with the connection's own changes (a locking read)
CurrentRows(p) == ApplyWrites(votes, txn[p].wr)
\* the rows the trigger's SELECT counts after the statement's change
TriggerRows(p, wr) == ApplyWrites(ReadView(p), wr)

WithoutId(wr, id) == {w \in wr : w.row.id # id}
OwnInsert(p, id) == \E w \in txn[p].wr : w.row.id = id /\ w.kind = "ins"

NoChange(p) == [st |-> "none", wr |-> txn[p].wr, trig |-> {}, id |-> 0]

\* faulty variant: table votes without its unique key
no_unique_user_feature_vote(rows, u, f) == FALSE

\* the unique key of votes: does (u, f) already have a row
unique_user_feature_vote(rows, u, f) ==
    \E r \in rows : r.user_id = u /\ r.feature_id = f

\* INSERT INTO votes (user_id, feature_id, vote_type) VALUES (u, f, t)
InsertStmt(p, u, f, t) ==
    LET new == [id |-> nextId, user_id |-> u, feature_id |-> f, vote_type |-> t]
        wr == txn[p].wr \cup {[kind |-> "ins", row |-> new]}
    IN  IF f \notin DOMAIN features
        THEN [NoChange(p) EXCEPT !.st = "ER_NO_REFERENCED_ROW"]
        ELSE IF unique_user_feature_vote(CurrentRows(p), u, f)
        THEN [NoChange(p) EXCEPT !.st = "ER_DUP_ENTRY"]
        ELSE [st |-> "changed", wr |-> wr, id |-> nextId,
              trig |-> update_votes_count_after_insert(TriggerRows(p, wr), new)]

\* faulty variant: the UPDATE matches no row
UpdateStmtNoRow(p, id, t) == NoChange(p)

\* UPDATE votes SET vote_type = t, updated_at = NOW() WHERE id = id
UpdateStmt(p, id, t) ==
    LET hit == {r \in CurrentRows(p) : r.id = id}
        old == CHOOSE r \in hit : TRUE
        new == [old EXCEPT !.vote_type = t]
        wr == WithoutId(txn[p].wr, id)
                \cup {[kind |-> IF OwnInsert(p, id) THEN "ins" ELSE "upd", row |-> new]}
    IN  IF hit = {} THEN NoChange(p)
        ELSE [st |-> "changed", wr |-> wr, id |-> id,
              trig |-> update_votes_count_after_update(TriggerRows(p, wr), old, new)]

\* faulty variant: the DELETE matches no row
DeleteStmtNoRow(p, id) == NoChange(p)

\* DELETE FROM votes WHERE id = id
DeleteStmt(p, id) ==
    LET hit == {r \in CurrentRows(p) : r.id = id}
        old == CHOOSE r \in hit : TRUE
        wr == WithoutId(txn[p].wr, id)
                \cup {[kind |-> IF OwnInsert(p, id) THEN "insdel" ELSE "del", row |-> old]}
    IN  IF hit = {} THEN NoChange(p)
        ELSE [st |-> "changed", wr |-> wr, id |-> id,
              trig |-> update_votes_count_after_delete(TriggerRows(p, wr), old)]

IsError(out) == out.st \in {"ER_DUP_ENTRY", "ER_NO_REFERENCED_ROW"}

\* ------------------------------------------------------------------ responses
\* a new request takes the first free handler slot (slots are interchangeable)
FreeSlot(p) == pc[p] = "idle" /\ \A q \in Procs : q < p => pc[q] # "idle"

Begins(p) ==
    /\ FreeSlot(p)
    /\ nreq < limits.requests
    /\ nreq' = nreq + 1
    /\ UNCHANGED limits

\* a request of a route without a limiter, or one the limiter lets pass uncounted: a
\* run of fewer requests than VOTE_RATE_LIMIT never fills a window
Arrives(p) ==
    /\ Begins(p)
    /\ UNCHANGED limiter

Reply(r, status, error) ==
    [NoRes EXCEPT !.status = status, !.error = error, !.op = r.op,
                  !.user = r.user, !.feature_id = r.feature_id,
                  !.vote_id = r.vote_id, !.asked = r.vote_type,
                  !.solo = r.solo, !.before = r.before]

\* the counters of a feature as stored
Counters(f) ==
    IF f \in DOMAIN features
    THEN [upvotes |-> features[f].upvotes_count, downvotes |-> features[f].downvotes_count,
          total |-> features[f].votes_count]
    ELSE NoCounts

\* the request with its history fields
Arriving(r) ==
    IF limits.logged > 0
    THEN [r EXCEPT !.solo = \A q \in Procs : pc[q] = "idle", !.before = Counters(r.feature_id)]
    ELSE r

\* the handler keeps running: the request takes slot p, and the requests in flight
\* are no longer alone
Admit(p, r) ==
    /\ req' = [q \in Procs |->
                IF q = p THEN Arriving(r)
                ELSE IF pc[q] # "idle" THEN [req[q] EXCEPT !.solo = FALSE]
                ELSE req[q]]
    /\ UNCHANGED <<res, log>>

\* res.status(...).json(...) ends the handler
Respond(p, r) ==
    /\ res' = r
    /\ log' = IF limits.logged = 0 THEN log
              ELSE IF Len(log) < limits.logged THEN Append(log, r)
              ELSE Append(Tail(log), r)
    /\ pc' = [pc EXCEPT ![p] = "idle"]
    /\ req' = [req EXCEPT ![p] = NoReq]
    /\ loc' = [loc EXCEPT ![p] = NoLoc]

\* a statement of an autocommit connection (pool.execute) has run its row change:
\* without a recompute to write it commits at once, otherwise the trigger's UPDATE
\* features is still to come
AfterWrite(p, out, pcTrig, pcNext) ==
    IF out.trig = {}
    THEN /\ votes' = ApplyWrites(votes, out.wr)
         /\ txn' = [txn EXCEPT ![p] = NoTxn]
         /\ pc' = [pc EXCEPT ![p] = pcNext]
    ELSE /\ votes' = votes
         /\ txn' = [txn EXCEPT ![p] = [NoTxn EXCEPT !.wr = out.wr, !.trig = out.trig]]
         /\ pc' = [pc EXCEPT ![p] = pcTrig]

NextIdAfter(out) == IF out.st = "changed" /\ out.id = nextId THEN nextId + 1 ELSE nextId

\* ------------------------------------------------------------------ POST /votes
\* faulty variant: the handler without its self-vote test
IsOwnFeatureUntested(feature, userId) == FALSE

\* if (feature.user_id === userId)
IsOwnFeature(feature, userId) == feature.user_id = userId

\* faulty variant: the handler without its archived test
IsArchivedUntested(feature) == FALSE

\* if (feature.status === 'archived')
IsArchived(feature) == feature.status = "archived"

\* faulty variant: the route without its validators
validateVoteSkipped(f, t) == TRUE

\* body('feature_id').isInt({ min: 1 }), body('vote_type').isIn(['upvote', 'downvote'])
validateVote(f, t) == f >= 1 /\ t \in VoteTypes

\* body('vote_type').isIn(['upvote', 'downvote'])
validateVoteUpdate(t) == t \in VoteTypes

\* handleValidationErrors, and the handler reads the feature
PostVotes_handler(p, u, f, t) ==
    /\ UNCHANGED cache
    /\ LET r == [NoReq EXCEPT !.op = "cast", !.user = u, !.feature_id = f, !.vote_type = t]
       IN  IF ~validateVote(f, t)
           THEN Respond(p, Reply(Arriving(r), 400, "Validation failed"))
           ELSE IF f \notin DOMAIN features
           THEN Respond(p, Reply(Arriving(r), 404, "Feature not found"))
           ELSE IF IsOwnFeature(features[f], u)
           THEN Respond(p, Reply(Arriving(r), 400, "Cannot vote on your own feature"))
           ELSE IF IsArchived(features[f])
           THEN Respond(p, Reply(Arriving(r), 400, "Cannot vote on archived features"))
           ELSE /\ Admit(p, r)
                /\ pc' = [pc EXCEPT ![p] = "cast_existing"]
                /\ UNCHANGED loc
    /\ UNCHANGED data

\* the request arrives while its key's window has room
PostVotes(p, u, f, t) ==
    /\ Arrives(p)
    /\ PostVotes_handler(p, u, f, t)

\* keyGenerator: (req) => req.headers['x-user-id'] || req.ip, after requireAuth
KeyOf(u) == u

\* windowMs: 60 * 1000 from the hit that opens the window, or up to the store's next
\* timer
WindowEnd(now) ==
    IF limiter.perKey THEN now + WindowTicks
    ELSE ((now \div WindowTicks) + 1) * WindowTicks

\* the store counts the hit, in a new window when the key's last one has ended
Hit(k) ==
    LET expired == limiter.now >= limiter.resetAt[k]
    IN  [limiter EXCEPT !.hits[k] = (IF expired THEN 0 ELSE @) + 1,
                        !.resetAt[k] = IF expired THEN WindowEnd(limiter.now) ELSE @]

\* app.post('/votes', requireAuth, votingLimiter, validateVote, handleValidationErrors,
\* ...): the limiter counts the request and answers 429 with its message, or calls
\* next()
votingLimiter(p, u, f, t) ==
    /\ Begins(p)
    /\ LET k == KeyOf(u)
           counted == Hit(k)
           r == [NoReq EXCEPT !.op = "cast", !.user = u, !.feature_id = f, !.vote_type = t]
       IN  IF counted.hits[k] > limiter.max
           THEN /\ limiter' = counted
                /\ Respond(p, [Reply(Arriving(r), 429, "Too many votes. Please slow down.")
                                 EXCEPT !.retryAfter = 60])
                /\ UNCHANGED <<data, cache>>
           ELSE /\ limiter' = [counted EXCEPT !.passed[k] = Append(@, limiter.now)]
                /\ PostVotes_handler(p, u, f, t)

\* time passes
Tick ==
    /\ limiter.now < MaxTicks
    /\ limiter' = [limiter EXCEPT !.now = @ + 1]
    /\ UNCHANGED <<votes, features, nextId, pc, req, loc, txn, res, nreq, log, limits, cache>>

\* SELECT id, vote_type FROM votes WHERE user_id = ? AND feature_id = ?
PostVotes_existingVotes(p) ==
    /\ pc[p] = "cast_existing"
    /\ LET existingVotes == {r \in votes : r.user_id = req[p].user
                                            /\ r.feature_id = req[p].feature_id}
           existingVote == IF existingVotes = {} THEN NoRow
                           ELSE CHOOSE r \in existingVotes :
                                    \A o \in existingVotes : r.id <= o.id
       IN  loc' = [loc EXCEPT ![p].existing = existingVote]
    /\ pc' = [pc EXCEPT ![p] = "cast_write"]
    /\ UNCHANGED <<data, req, res, nreq, log, limits, limiter, cache>>

\* the three-way branch: DELETE (same type), UPDATE (other type) or INSERT (no vote)
PostVotes_write(p) ==
    /\ pc[p] = "cast_write"
    /\ ~Blocked(p)
    /\ LET existingVote == loc[p].existing
           out == IF existingVote = NoRow
                  THEN InsertStmt(p, req[p].user, req[p].feature_id, req[p].vote_type)
                  ELSE IF existingVote.vote_type = req[p].vote_type
                  THEN DeleteStmt(p, existingVote.id)
                  ELSE UpdateStmt(p, existingVote.id, req[p].vote_type)
           action == IF existingVote = NoRow THEN "created"
                     ELSE IF existingVote.vote_type = req[p].vote_type THEN "removed"
                     ELSE "updated"
           voteId == IF existingVote = NoRow THEN out.id
                     ELSE IF action = "removed" THEN 0 ELSE existingVote.id
       IN  IF IsError(out)
           THEN \* catch: error.code is not ER_SIGNAL_EXCEPTION
                /\ Respond(p, Reply(req[p], 500, "Internal server error"))
                /\ UNCHANGED <<votes, txn, nextId>>
           ELSE /\ AfterWrite(p, out, "cast_trig", "cast_counts")
                /\ nextId' = NextIdAfter(out)
                /\ loc' = [loc EXCEPT ![p].action = action, ![p].voteId = voteId]
                /\ UNCHANGED <<req, res, log>>
    /\ UNCHANGED <<features, nreq, limits, limiter, cache>>

\* SELECT COUNT(...) FROM votes WHERE feature_id = ? and res.json
PostVotes_voteCounts(p) ==
    /\ pc[p] = "cast_counts"
    /\ LET counts == VoteCounts(votes, req[p].feature_id)
       IN  Respond(p, [Reply(req[p], 200, "none") EXCEPT
                        !.action = loc[p].action,
                        !.vote_id = loc[p].voteId,
                        !.vote_type = IF loc[p].action = "removed" THEN "none"
                                      ELSE req[p].vote_type,
                        !.upvotes = counts.upvotes,
                        !.downvotes = counts.downvotes,
                        !.total = counts.upvotes - counts.downvotes])
    /\ UNCHANGED <<data, nreq, limits, limiter, cache>>

\* ------------------------------------------------------------------ PUT /votes/:id
\* faulty variant: the SELECT without its user_id condition
SelectAnyVote(rows, id, u) == {v \in rows : v.id = id}

\* SELECT ... FROM votes WHERE id = ? AND user_id = ? (PUT and DELETE /votes/:id)
SelectOwnVote(rows, id, u) == {v \in rows : v.id = id /\ v.user_id = u}

\* faulty variant: the handler without its same-type test
IsSameTypeUntested(vote, vote_type) == FALSE

\* if (vote.vote_type === vote_type)
IsSameType(vote, vote_type) == vote.vote_type = vote_type

\* handleValidationErrors, the SELECT and the two tests of its result
PutVote(p, u, id, t) ==
    /\ Arrives(p)
    /\ UNCHANGED cache
    /\ LET r == [NoReq EXCEPT !.op = "update", !.user = u, !.vote_id = id, !.vote_type = t]
           found == SelectOwnVote(votes, id, u)
           vote == CHOOSE v \in found : TRUE
       IN  IF ~validateVoteUpdate(t)
           THEN Respond(p, Reply(Arriving(r), 400, "Validation failed"))
           ELSE IF found = {}
           THEN Respond(p, Reply(Arriving(r), 404, "Vote not found or access denied"))
           ELSE IF IsSameType(vote, t)
           THEN Respond(p, Reply(Arriving(r), 400, "Vote type is already set to this value"))
           ELSE /\ Admit(p, [r EXCEPT !.feature_id = vote.feature_id])
                /\ pc' = [pc EXCEPT ![p] = "put_write"]
                /\ UNCHANGED loc
    /\ UNCHANGED data

\* UPDATE votes SET vote_type = ?, updated_at = NOW() WHERE id = ?
PutVote_write(p) ==
    /\ pc[p] = "put_write"
    /\ ~Blocked(p)
    /\ AfterWrite(p, UpdateStmt(p, req[p].vote_id, req[p].vote_type), "put_trig", "put_updated")
    /\ UNCHANGED <<features, nextId, req, loc, res, nreq, log, limits, limiter, cache>>

\* SELECT v.* FROM votes v JOIN features f ... WHERE v.id = ? and res.json
PutVote_updatedVotes(p) ==
    /\ pc[p] = "put_updated"
    /\ LET updatedVotes == {v \in votes : v.id = req[p].vote_id
                                           /\ v.feature_id \in DOMAIN features}
       IN  Respond(p, [Reply(req[p], 200, "none") EXCEPT
                        !.vote = IF updatedVotes = {} THEN NoRow
                                 ELSE CHOOSE v \in updatedVotes : TRUE])
    /\ UNCHANGED <<data, nreq, limits, limiter, cache>>

\* ------------------------------------------------------------------ DELETE /votes/:id
\* the SELECT and the test of its result
DeleteVote(p, u, id) ==
    /\ Arrives(p)
    /\ UNCHANGED cache
    /\ LET r == [NoReq EXCEPT !.op = "remove", !.user = u, !.vote_id = id]
           found == SelectOwnVote(votes, id, u)
           vote == CHOOSE v \in found : TRUE
       IN  IF found = {}
           THEN Respond(p, Reply(Arriving(r), 404, "Vote not found or access denied"))
           ELSE /\ Admit(p, [r EXCEPT !.feature_id = vote.feature_id])
                /\ pc' = [pc EXCEPT ![p] = "del_write"]
                /\ UNCHANGED loc
    /\ UNCHANGED data

\* DELETE FROM votes WHERE id = ?
DeleteVote_write(p) ==
    /\ pc[p] = "del_write"
    /\ ~Blocked(p)
    /\ AfterWrite(p, DeleteStmt(p, req[p].vote_id), "del_trig", "del_respond")
    /\ UNCHANGED <<features, nextId, req, loc, res, nreq, log, limits, limiter, cache>>

DeleteVote_respond(p) ==
    /\ pc[p] = "del_respond"
    /\ Respond(p, Reply(req[p], 200, "none"))
    /\ UNCHANGED <<data, nreq, limits, limiter, cache>>

\* ------------------------------------------------------------------ triggers, commit
\* the trigger's UPDATE features and the commit of an autocommit statement
TriggerCommit(p) ==
    /\ pc[p] \in {"cast_trig", "put_trig", "del_trig"}
    /\ ~Blocked(p)
    /\ features' = WriteAllCounters(features, txn[p].trig)
    /\ votes' = ApplyWrites(votes, txn[p].wr)
    /\ txn' = [txn EXCEPT ![p] = NoTxn]
    /\ pc' = [pc EXCEPT ![p] = CASE pc[p] = "cast_trig" -> "cast_counts"
                                 [] pc[p] = "put_trig" -> "put_updated"
                                 [] pc[p] = "del_trig" -> "del_respond"]
    /\ loc' = IF limits.logged > 0 THEN [loc EXCEPT ![p].wrote = txn[p].trig] ELSE loc
    /\ UNCHANGED <<nextId, req, res, nreq, log, limits, limiter, cache>>

\* InnoDB breaks a lock cycle by rolling one transaction back; the statement
\* throws ER_LOCK_DEADLOCK, which the handlers answer with 500
DeadlockVictim(p) ==
    /\ pc[p] \in {"cast_trig", "put_trig", "del_trig"}
    /\ Deadlocked(p)
    /\ txn' = [txn EXCEPT ![p] = NoTxn]
    /\ Respond(p, Reply(req[p], 500, "Internal server error"))
    /\ UNCHANGED <<votes, features, nextId, nreq, limits, limiter, cache>>

\* ------------------------------------------------------------------ GET /features/:id
\* const cache = new Map(): nothing cached
EmptyCache == [f \in FeatureIds |-> NoFeature]

\* cacheGet: the cached feature, unless the entry is missing or its expiry has passed
cacheGet(f, expired) == IF expired THEN NoFeature ELSE cache[f]

\* the cache lookup and, on a miss, SELECT f.* ... FROM features f WHERE f.id = ?
GetFeature(p, f, expired) ==
    /\ Arrives(p)
    /\ LET r == [NoReq EXCEPT !.op = "get", !.feature_id = f]
           cached == cacheGet(f, expired)
       IN  IF cached # NoFeature
           THEN /\ Respond(p, [Reply(Arriving(r), 200, "none") EXCEPT
                                 !.upvotes = cached.upvotes_count,
                                 !.downvotes = cached.downvotes_count,
                                 !.total = cached.votes_count])
                /\ UNCHANGED cache
           ELSE IF f \notin DOMAIN features
           THEN /\ Respond(p, Reply(Arriving(r), 404, "Feature not found"))
                /\ cache' = [cache EXCEPT ![f] = NoFeature]
           ELSE /\ Admit(p, r)
                /\ loc' = [loc EXCEPT ![p].feature = features[f]]
                /\ pc' = [pc EXCEPT ![p] = "get_comments"]
                /\ cache' = [cache EXCEPT ![f] = NoFeature]
    /\ UNCHANGED data

\* the comments query, cacheSet and res.json
GetFeature_respond(p) ==
    /\ pc[p] = "get_comments"
    /\ cache' = [cache EXCEPT ![req[p].feature_id] = loc[p].feature]
    /\ Respond(p, [Reply(req[p], 200, "none") EXCEPT
                     !.upvotes = loc[p].feature.upvotes_count,
                     !.downvotes = loc[p].feature.downvotes_count,
                     !.total = loc[p].feature.votes_count])
    /\ UNCHANGED <<data, nreq, limits, limiter>>

\* ------------------------------------------------------------------ GET /votes/user/:userId/feature/:featureId
\* faulty variant: the lookup without its user condition
SelectFeatureVote(rows, u, f) == {v \in rows : v.feature_id = f}

\* SELECT v.*, ... FROM votes v JOIN features f ON v.feature_id = f.id
\* WHERE v.user_id = ? AND v.feature_id = ?
SelectUserFeatureVote(rows, u, f) ==
    {v \in rows : v.user_id = u /\ v.feature_id = f /\ v.feature_id \in DOMAIN features}

\* param('userId').isInt({ min: 1 }), param('featureId').isInt({ min: 1 }), the one
\* SELECT of the committed rows, and the answer
GetUserFeatureVote(p, u, f) ==
    /\ Arrives(p)
    /\ LET r == [NoReq EXCEPT !.op = "lookup", !.user = u, !.feature_id = f]
           found == SelectUserFeatureVote(votes, u, f)
       IN  IF ~(u >= 1 /\ f >= 1)
           THEN Respond(p, Reply(Arriving(r), 400, "Validation failed"))
           ELSE IF found = {}
           THEN Respond(p, Reply(Arriving(r), 404, "Vote not found"))
           ELSE \E v \in found :
                   Respond(p, [Reply(Arriving(r), 200, "none") EXCEPT
                                 !.vote = v, !.vote_id = v.id, !.vote_type = v.vote_type])
    /\ UNCHANGED <<data, cache>>

\* ------------------------------------------------------------------ GET /votes
\* the rows a filter keeps: user_id and feature_id are conditions when given (0: not
\* given)
Listed(rows, u, f) ==
    {v \in rows : (u # 0 => v.user_id = u) /\ (f # 0 => v.feature_id = f)}

\* validateQuery, and SELECT v.*, ... FROM votes v JOIN features f ... JOIN users u ...
\* ORDER BY v.created_at DESC LIMIT ? OFFSET ?: the rows of the page, of which the
\* model keeps none
GetVotes(p, u, f) ==
    /\ Arrives(p)
    /\ Admit(p, [NoReq EXCEPT !.op = "list", !.user = u, !.feature_id = f])
    /\ pc' = [pc EXCEPT ![p] = "list_count"]
    /\ UNCHANGED <<data, cache, loc>>

\* SELECT COUNT(*) as total FROM votes v WHERE ..., and res.json with the pagination
GetVotes_count(p) ==
    /\ pc[p] = "list_count"
    /\ Respond(p, [Reply(req[p], 200, "none") EXCEPT
                     !.total = Cardinality(Listed(votes, req[p].user, req[p].feature_id))])
    /\ UNCHANGED <<data, nreq, limits, limiter, cache>>

\* ------------------------------------------------------------------ PATCH /features/:id/status
\* faulty variant: the table without its transition trigger
AnyTransition(old, new) == TRUE

\* validate_feature_status_transition (BEFORE UPDATE ON features)
ValidTransition(old, new) ==
    \/ old = new
    \/ old = "pending" /\ new \in {"approved", "rejected", "archived"}
    \/ old = "approved" /\ new \in {"implemented", "archived", "pending"}
    \/ old = "rejected" /\ new \in {"pending", "archived"}
    \/ old = "implemented" /\ new \in {"archived"}

\* the feature row is free of other connections' locks
FeatureRowFree(f) ==
    \A q \in Procs : f \notin (Holds(q).s \cup Holds(q).x)

\* faulty variant: the status change also sets the three counters back to 0
SetStatusAndCounters(feature, s) ==
    [feature EXCEPT !.status = s, !.votes_count = 0, !.upvotes_count = 0,
                    !.downvotes_count = 0]

\* UPDATE features SET status = ?, updated_at = NOW(), ... WHERE id = ?
SetStatus(feature, s) == [feature EXCEPT !.status = s]

PatchFeatureStatus(p, u, f, s) ==
    /\ Arrives(p)
    /\ LET r == [NoReq EXCEPT !.op = "status", !.user = u, !.feature_id = f]
       IN  IF u \notin Admins
           THEN /\ Respond(p, Reply(r, 403, "Admin access required"))
                /\ UNCHANGED <<features, cache>>
           ELSE IF f \notin DOMAIN features
           THEN /\ Respond(p, Reply(r, 404, "Feature not found"))
                /\ UNCHANGED <<features, cache>>
           ELSE /\ FeatureRowFree(f)
                /\ IF ValidTransition(features[f].status, s)
                   THEN /\ features' = [features EXCEPT ![f] = SetStatus(@, s)]
                        /\ cache' = EmptyCache
                        /\ Respond(p, Reply(r, 200, "none"))
                   ELSE /\ Respond(p, Reply(r, 500, "Internal server error"))
                        /\ UNCHANGED <<features, cache>>
    /\ UNCHANGED <<votes, nextId, txn>>

\* ------------------------------------------------------------------ PUT /features/:id
\* requireOwnershipOrAdmin, then UPDATE features SET title = ?, ... WHERE id = ?:
\* the statement names none of the columns kept here.  hasFields: the body holds a
\* field the handler copies
PutFeature(p, u, f, hasFields) ==
    /\ Arrives(p)
    /\ LET r == [NoReq EXCEPT !.op = "feature_update", !.user = u, !.feature_id = f]
       IN  IF u \notin Admins /\ f \notin DOMAIN features
           THEN /\ Respond(p, Reply(r, 404, "Feature not found"))
                /\ UNCHANGED cache
           ELSE IF u \notin Admins /\ features[f].user_id # u
           THEN /\ Respond(p, Reply(r, 403, "Access denied"))
                /\ UNCHANGED cache
           ELSE IF ~hasFields
           THEN /\ Respond(p, Reply(r, 400, "No valid fields to update"))
                /\ UNCHANGED cache
           ELSE /\ f \in DOMAIN features => FeatureRowFree(f)
                /\ cache' = EmptyCache
                /\ Respond(p, Reply(r, 200, "none"))
    /\ UNCHANGED <<votes, features, nextId, txn>>

\* ------------------------------------------------------------------ DELETE /features/:id
\* faulty variant: table votes without ON DELETE CASCADE on feature_id
KeepVotes(rows, f) == rows

\* FOREIGN KEY (feature_id) REFERENCES features(id) ON DELETE CASCADE
CascadeVotes(rows, f) == {v \in rows : v.feature_id # f}

\* requireOwnershipOrAdmin and SELECT id, title FROM features WHERE id = ?
DeleteFeature(p, u, f) ==
    /\ Arrives(p)
    /\ LET r == [NoReq EXCEPT !.op = "feature_delete", !.user = u, !.feature_id = f]
       IN  IF f \notin DOMAIN features
           THEN Respond(p, Reply(Arriving(r), 404, "Feature not found"))
           ELSE IF u \notin Admins /\ features[f].user_id # u
           THEN Respond(p, Reply(Arriving(r), 403, "Access denied"))
           ELSE /\ Admit(p, r)
                /\ pc' = [pc EXCEPT ![p] = "fdel_write"]
                /\ UNCHANGED loc
    /\ UNCHANGED <<data, cache>>

\* DELETE FROM features WHERE id = ? with its cascade, the commit, cache.clear() and
\* res.json; the features left keep their ids
DeleteFeature_write(p) ==
    /\ pc[p] = "fdel_write"
    /\ ~Blocked(p)
    /\ LET f == req[p].feature_id
       IN  /\ features' = [g \in DOMAIN features \ {f} |-> features[g]]
           /\ votes' = IF f \in DOMAIN features THEN CascadeVotes(votes, f) ELSE votes
    /\ cache' = EmptyCache
    /\ Respond(p, Reply(req[p], 200, "none"))
    /\ UNCHANGED <<nextId, txn, nreq, limits, limiter>>

\* the DELETE loses a deadlock and the handler's catch answers 500
DeleteFeature_deadlock(p) ==
    /\ pc[p] = "fdel_write"
    /\ Deadlocked(p)
    /\ Respond(p, Reply(req[p], 500, "Internal server error"))
    /\ UNCHANGED <<data, nreq, limits, limiter, cache>>

\* ------------------------------------------------------------------ POST /features
\* INSERT INTO features (title, description, user_id, ...): the counters take
\* their DEFAULT 0.  At most one feature is created
PostFeatures(p, u) ==
    /\ Arrives(p)
    /\ Len(features) <= NumFeatures
    /\ features' = Append(features, NewFeature(u))
    /\ cache' = EmptyCache
    /\ Respond(p, [Reply([NoReq EXCEPT !.op = "feature_create", !.user = u,
                                       !.feature_id = Len(features) + 1], 201, "none")
                     EXCEPT !.status = 201])
    /\ UNCHANGED <<votes, nextId, txn>>

\* ------------------------------------------------------------------ POST /votes/bulk
\* the operations a batch may hold.  A missing field is 0 or "none"; the fields an
\* action does not read are left out, and one operation stands for all those of an
\* action that lack a field it needs
BulkOps ==
    [action : {"create"}, feature_id : FeatureIds, vote_id : {0}, vote_type : VoteTypes]
      \cup [action : {"update"}, feature_id : {0}, vote_id : 1..nextId, vote_type : VoteTypes]
      \cup [action : {"delete"}, feature_id : {0}, vote_id : 1..nextId, vote_type : {"none"}]
      \cup [action : {"create", "update", "delete"}, feature_id : {0}, vote_id : {0},
            vote_type : {"none"}]

\* faulty variant: the handler without its role check
IsAdminUntested(userRole) == TRUE

\* the negation of: if (userRole !== 'admin')
IsAdmin(userRole) == userRole = "admin"

\* the role check, pool.getConnection, connection.beginTransaction
PostVotesBulk(p, u, op) ==
    /\ Arrives(p)
    /\ UNCHANGED cache
    /\ LET r == [NoReq EXCEPT !.op = "bulk", !.user = u,
                              !.role = IF u \in Admins THEN "admin" ELSE "user"]
       IN  IF ~IsAdmin(r.role)
           THEN /\ Respond(p, Reply(r, 403, "Admin access required"))
                /\ UNCHANGED txn
           ELSE /\ Admit(p, r)
                /\ loc' = [loc EXCEPT ![p].op = op]
                /\ txn' = [txn EXCEPT ![p] = [NoTxn EXCEPT !.intx = TRUE, !.conn = TRUE]]
                /\ pc' = [pc EXCEPT ![p] = "bulk_write"]
    /\ UNCHANGED <<votes, features, nextId>>

\* results.push(...) and the next turn of the loop, or the end of the list
BulkPush(p, success) ==
    LET results == Append(loc[p].results, [action |-> loc[p].op.action, success |-> success])
    IN  \/ /\ Len(results) < limits.ops
           /\ \E op \in BulkOps :
                loc' = [loc EXCEPT ![p].results = results, ![p].op = op]
           /\ pc' = [pc EXCEPT ![p] = "bulk_write"]
        \/ /\ loc' = [loc EXCEPT ![p].results = results, ![p].op = NoOp]
           /\ pc' = [pc EXCEPT ![p] = "bulk_commit"]

\* faulty variant: the switch without its tests of the operation's fields
BulkStmtUntested(p) ==
    LET op == loc[p].op
    IN  IF op.action = "create"
        THEN InsertStmt(p, req[p].user, op.feature_id, op.vote_type)
        ELSE IF op.action = "update"
        THEN UpdateStmt(p, op.vote_id, op.vote_type)
        ELSE DeleteStmt(p, op.vote_id)

\* the statement of one operation (connection.execute), up to its trigger's read
BulkStmt(p) ==
    LET op == loc[p].op
    IN  IF op.action = "create" /\ op.feature_id # 0 /\ op.vote_type # "none"
        THEN InsertStmt(p, req[p].user, op.feature_id, op.vote_type)
        ELSE IF op.action = "update" /\ op.vote_id # 0 /\ op.vote_type # "none"
        THEN UpdateStmt(p, op.vote_id, op.vote_type)
        ELSE IF op.action = "delete" /\ op.vote_id # 0
        THEN DeleteStmt(p, op.vote_id)
        ELSE [NoChange(p) EXCEPT !.st = "skipped"]

\* the connection's transaction after a statement: its changes, the read view its
\* first consistent read opened, the trigger's pending UPDATE features
TxnAfter(p, out) ==
    [txn[p] EXCEPT !.wr = out.wr, !.trig = out.trig,
                   !.hasSnap = @ \/ (txn[p].intx /\ out.trig # {}),
                   !.snap = IF txn[p].intx /\ ~txn[p].hasSnap /\ out.trig # {}
                            THEN votes ELSE @]

\* a connection outside a transaction commits at the end of each statement
CommitIfAuto(p, t) ==
    IF t.intx
    THEN /\ txn' = [txn EXCEPT ![p] = t]
         /\ UNCHANGED <<votes, features>>
    ELSE /\ votes' = ApplyWrites(votes, t.wr)
         /\ features' = WriteAllCounters(features, t.fw)
         /\ txn' = [txn EXCEPT ![p] =
                      [NoTxn EXCEPT !.kept = t.kept \/ (/\ limits.logged > 0
                                                    /\ ApplyWrites(votes, t.wr) # votes),
                                    !.conn = t.conn, !.ends = t.ends,
                                    !.releases = t.releases]]

PostVotesBulk_write(p) ==
    /\ pc[p] = "bulk_write"
    /\ ~Blocked(p)
    /\ LET out == BulkStmt(p)
       IN  IF out.st = "skipped"
           THEN /\ BulkPush(p, FALSE)
                /\ UNCHANGED <<votes, features, txn, nextId>>
           ELSE IF IsError(out)
           THEN \* catch (opError)
                /\ BulkPush(p, FALSE)
                /\ UNCHANGED <<votes, features, txn, nextId>>
           ELSE IF out.trig = {}
           THEN /\ BulkPush(p, TRUE)
                /\ CommitIfAuto(p, TxnAfter(p, out))
                /\ nextId' = NextIdAfter(out)
           ELSE /\ txn' = [txn EXCEPT ![p] = TxnAfter(p, out)]
                /\ pc' = [pc EXCEPT ![p] = "bulk_trig"]
                /\ nextId' = NextIdAfter(out)
                /\ UNCHANGED <<votes, features, loc>>
    /\ UNCHANGED <<req, res, nreq, log, limits, limiter, cache>>

\* the trigger's UPDATE features inside the batch's transaction
PostVotesBulk_trigger(p) ==
    /\ pc[p] = "bulk_trig"
    /\ ~Blocked(p)
    /\ LET fs == {t.feature_id : t \in txn[p].trig}
           t == [txn[p] EXCEPT !.fw = {w \in @ : w.feature_id \notin fs} \cup txn[p].trig,
                               !.trig = {}]
       IN  CommitIfAuto(p, t)
    /\ BulkPush(p, TRUE)
    /\ UNCHANGED <<nextId, req, res, nreq, log, limits, limiter, cache>>

\* the connection after COMMIT or ROLLBACK, sent by the handler or done by the
\* server: its changes and locks are gone, and the transaction it was in has ended
EndTxn(t) ==
    [NoTxn EXCEPT !.conn = t.conn, !.releases = t.releases,
                  !.ends = IF t.intx THEN t.ends + 1 ELSE t.ends]

\* faulty variant: the handler without its finally block
releaseSkipped(t) == t

\* finally { connection.release() }
release(t) == [t EXCEPT !.conn = FALSE, !.releases = @ + 1]

\* the batch loses a deadlock: InnoDB rolls its whole transaction back, the
\* statement throws and the loop's catch records the operation as failed
PostVotesBulk_deadlock(p) ==
    /\ pc[p] \in {"bulk_write", "bulk_trig"}
    /\ Deadlocked(p)
    /\ txn' = [txn EXCEPT ![p] = EndTxn(txn[p])]
    /\ BulkPush(p, FALSE)
    /\ UNCHANGED <<votes, features, nextId, req, res, nreq, log, limits, limiter, cache>>

\* connection.commit(), connection.release(), res.json
PostVotesBulk_commit(p) ==
    /\ pc[p] = "bulk_commit"
    /\ votes' = ApplyWrites(votes, txn[p].wr)
    /\ features' = WriteAllCounters(features, txn[p].fw)
    /\ txn' = [txn EXCEPT ![p] = NoTxn]
    /\ LET t == release(EndTxn(txn[p]))
       IN  Respond(p, [Reply(req[p], 200, "none") EXCEPT
                         !.results = loc[p].results,
                         !.ended = t.ends, !.released = t.releases])
    /\ UNCHANGED <<nextId, nreq, limits, limiter, cache>>

\* connection.commit() throws: catch (error) { connection.rollback(); throw error },
\* connection.release(), and the outer catch answers 500
PostVotesBulk_rollback(p) ==
    /\ pc[p] = "bulk_commit"
    /\ txn' = [txn EXCEPT ![p] = NoTxn]
    /\ LET t == release(EndTxn(txn[p]))
       IN  Respond(p, [Reply(req[p], 500, "Internal server error") EXCEPT
                         !.ended = t.ends, !.released = t.releases])
    /\ UNCHANGED <<votes, features, nextId, nreq, limits, limiter, cache>>

\* ------------------------------------------------------------------ specification
\* the database after the init scripts: a feature of Owner with no votes yet, or
\* with a sample vote of the last user and the counters its insert trigger wrote
SampleVotes == {[id |-> 1, user_id |-> NumUsers, feature_id |-> 1, vote_type |-> "upvote"]}

InitLimited(vs, lim, lt) ==
    /\ votes = vs
    /\ features = [f \in 1..lim.features |->
                     [NewFeature(Owner) EXCEPT
                        !.upvotes_count = VoteCounts(vs, f).upvotes,
                        !.downvotes_count = VoteCounts(vs, f).downvotes,
                        !.votes_count = VoteCounts(vs, f).upvotes - VoteCounts(vs, f).downvotes]]
    /\ nextId = Cardinality(vs) + 1
    /\ pc = [p \in Procs |-> "idle"]
    /\ req = [p \in Procs |-> NoReq]
    /\ loc = [p \in Procs |-> NoLoc]
    /\ txn = [p \in Procs |-> NoTxn]
    /\ res = NoRes
    /\ nreq = 0
    /\ log = <<>>
    /\ limits = lim
    /\ cache = EmptyCache
    /\ limiter = lt

InitWith(vs, lim) == InitLimited(vs, lim, NoHits)

Init == \E vs \in {{}, SampleVotes} : InitWith(vs, [requests |-> MaxReq, logged |-> 0, ops |-> MaxOps,
                  features |-> NumFeatures])

Step(P) ==
    \/ \E p \in P, u \in Users, f \in FeatureIds, t \in VoteTypes : PostVotes(p, u, f, t)
    \/ \E p \in P : PostVotes_existingVotes(p)
    \/ \E p \in P : PostVotes_write(p)
    \/ \E p \in P : PostVotes_voteCounts(p)
    \/ \E p \in P, u \in Users, id \in 1..nextId, t \in VoteTypes : PutVote(p, u, id, t)
    \/ \E p \in P : PutVote_write(p)
    \/ \E p \in P : PutVote_updatedVotes(p)
    \/ \E p \in P, u \in Users, id \in 1..nextId : DeleteVote(p, u, id)
    \/ \E p \in P : DeleteVote_write(p)
    \/ \E p \in P : DeleteVote_respond(p)
    \/ \E p \in P : TriggerCommit(p)
    \/ \E p \in P : DeadlockVictim(p)
    \/ \E p \in P, u \in Users, f \in FeatureIds, s \in Statuses : PatchFeatureStatus(p, u, f, s)
    \/ \E p \in P, u \in Users : \E op \in BulkOps : PostVotesBulk(p, u, op)
    \/ \E p \in P : PostVotesBulk_write(p)
    \/ \E p \in P : PostVotesBulk_trigger(p)
    \/ \E p \in P : PostVotesBulk_deadlock(p)
    \/ \E p \in P : PostVotesBulk_commit(p)
    \/ \E p \in P : PostVotesBulk_rollback(p)

Next == Step(Procs)

Spec == Init /\ [][Next]_vars

\* POST /votes alone, requests of any users overlapping
CastStep(P, U, F, T) ==
    \/ \E p \in P, u \in U, f \in F, t \in T : PostVotes(p, u, f, t)
    \/ \E p \in P : PostVotes_existingVotes(p)
    \/ \E p \in P : PostVotes_write(p)
    \/ \E p \in P : PostVotes_voteCounts(p)
    \/ \E p \in P : TriggerCommit(p)
    \/ \E p \in P : DeadlockVictim(p)

CastInit ==
    \E vs \in {{}, SampleVotes} :
        InitWith(vs, [requests |-> MaxCastReq, logged |-> 2, ops |-> MaxOps,
                  features |-> NumFeatures])
CastNext == CastStep(Procs, Users, 1..NumFeatures, VoteTypes)
CastSpec == CastInit /\ [][CastNext]_vars

\* one user sends the same upvote for the same feature again and again, the
\* requests overlapping; the feature starts without votes.  The writes of one
\* (user, feature) queue on the row and unique-key locks, so no lock cycle forms
\* and no request is a deadlock victim
RaceUser == NumUsers
RaceInit == InitWith({}, [requests |-> MaxRaceReq, logged |-> MaxRaceReq, ops |-> MaxOps,
                  features |-> NumFeatures])
RaceNext ==
    \/ \E p \in Procs : PostVotes(p, RaceUser, 1, "upvote")
    \/ \E p \in Procs : PostVotes_existingVotes(p)
    \/ \E p \in Procs : PostVotes_write(p)
    \/ \E p \in Procs : PostVotes_voteCounts(p)
    \/ \E p \in Procs : TriggerCommit(p)
RaceSpec == RaceInit /\ [][RaceNext]_vars

\* POST /votes one request at a time, from a feature without votes
SeqInit == InitWith({}, [requests |-> MaxSeqReq, logged |-> MaxSeqReq, ops |-> MaxOps,
                  features |-> NumFeatures])
SeqNext ==
    \/ \E u \in Users, f \in FeatureIds, t \in VoteTypes : PostVotes(1, u, f, t)
    \/ PostVotes_existingVotes(1)
    \/ PostVotes_write(1)
    \/ PostVotes_voteCounts(1)
    \/ TriggerCommit(1)
SeqSpec == SeqInit /\ [][SeqNext]_vars

\* votes and reads of the feature through the Feature service, one request at a
\* time, from a feature without votes
ReadInit == InitWith({}, [requests |-> MaxReadReq, logged |-> MaxReadReq, ops |-> MaxOps,
                  features |-> NumFeatures])
ReadNext ==
    \/ \E u \in Users, f \in FeatureIds, t \in VoteTypes : PostVotes(1, u, f, t)
    \/ PostVotes_existingVotes(1)
    \/ PostVotes_write(1)
    \/ PostVotes_voteCounts(1)
    \/ TriggerCommit(1)
    \/ \E f \in FeatureIds, expired \in BOOLEAN : GetFeature(1, f, expired)
    \/ GetFeature_respond(1)
ReadSpec == ReadInit /\ [][ReadNext]_vars

\* one POST /votes/bulk of up to MaxBulkOps operations, nothing else running
BulkInit ==
    \E vs \in {{}, SampleVotes} :
        InitWith(vs, [requests |-> 1, logged |-> 1, ops |-> MaxBulkOps,
                  features |-> NumFeatures])
BulkNext ==
    \/ \E u \in Users : \E op \in BulkOps : PostVotesBulk(1, u, op)
    \/ PostVotesBulk_write(1)
    \/ PostVotesBulk_trigger(1)
    \/ PostVotesBulk_commit(1)
    \/ PostVotesBulk_rollback(1)
BulkSpec == BulkInit /\ [][BulkNext]_vars

\* two POST /votes/bulk of the administrator at the same time, each of up to MaxOps
\* operations, on features without votes; every feature id a request may name exists
BulkRaceInit ==
    InitWith({}, [requests |-> NumProcs, logged |-> 1, ops |-> MaxOps,
                  features |-> NumFeatures + 1])
BulkRaceNext ==
    \/ \E p \in Procs : \E op \in BulkOps : PostVotesBulk(p, Owner, op)
    \/ \E p \in Procs : PostVotesBulk_write(p)
    \/ \E p \in Procs : PostVotesBulk_trigger(p)
    \/ \E p \in Procs : PostVotesBulk_deadlock(p)
    \/ \E p \in Procs : PostVotesBulk_commit(p)
    \/ \E p \in Procs : PostVotesBulk_rollback(p)
BulkRaceSpec == BulkRaceInit /\ [][BulkRaceNext]_vars

\* a POST /votes/bulk of the administrator and votes of the other users at the same
\* time, on a feature without votes or with the sample vote
BulkCastInit ==
    \E vs \in {{}, SampleVotes} :
        InitWith(vs, [requests |-> NumProcs, logged |-> 1, ops |-> MaxOps,
                      features |-> NumFeatures])
BulkCastNext ==
    \/ \E p \in Procs : \E op \in BulkOps : PostVotesBulk(p, Owner, op)
    \/ \E p \in Procs : PostVotesBulk_write(p)
    \/ \E p \in Procs : PostVotesBulk_trigger(p)
    \/ \E p \in Procs : PostVotesBulk_deadlock(p)
    \/ \E p \in Procs : PostVotesBulk_commit(p)
    \/ \E p \in Procs : PostVotesBulk_rollback(p)
    \/ \E p \in Procs, u \in Users \ {Owner}, f \in FeatureIds, t \in VoteTypes :
          PostVotes(p, u, f, t)
    \/ \E p \in Procs : PostVotes_existingVotes(p)
    \/ \E p \in Procs : PostVotes_write(p)
    \/ \E p \in Procs : PostVotes_voteCounts(p)
    \/ \E p \in Procs : TriggerCommit(p)
    \/ \E p \in Procs : DeadlockVictim(p)
BulkCastSpec == BulkCastInit /\ [][BulkCastNext]_vars

\* the same, with every statement in flight completing: a lock wait ends when the
\* holder commits or a deadlock is resolved, and the event loop runs every
\* continuation
Continues(p) ==
    \/ PostVotesBulk_write(p)
    \/ PostVotesBulk_trigger(p)
    \/ PostVotesBulk_deadlock(p)
    \/ PostVotesBulk_commit(p)
    \/ PostVotesBulk_rollback(p)
    \/ PostVotes_existingVotes(p)
    \/ PostVotes_write(p)
    \/ PostVotes_voteCounts(p)
    \/ TriggerCommit(p)
    \/ DeadlockVictim(p)
BulkFairInit ==
    \E vs \in {{}, SampleVotes} :
        InitWith(vs, [requests |-> NumProcs, logged |-> 1, ops |-> MaxHealOps,
                      features |-> NumFeatures])
BulkFairSpec ==
    BulkFairInit /\ [][BulkCastNext]_vars /\ \A p \in Procs : WF_vars(Continues(p))

\* PUT /votes/:id and DELETE /votes/:id of any users at the same time, on the
\* feature with the sample vote
PutInit == InitWith(SampleVotes, [requests |-> MaxPutReq, logged |-> 2, ops |-> MaxOps,
                                  features |-> NumFeatures])
PutNext ==
    \/ \E p \in Procs, u \in Users, id \in 1..nextId, t \in VoteTypes : PutVote(p, u, id, t)
    \/ \E p \in Procs : PutVote_write(p)
    \/ \E p \in Procs : PutVote_updatedVotes(p)
    \/ \E p \in Procs, u \in Users, id \in 1..nextId : DeleteVote(p, u, id)
    \/ \E p \in Procs : DeleteVote_write(p)
    \/ \E p \in Procs : DeleteVote_respond(p)
    \/ \E p \in Procs : TriggerCommit(p)
PutSpec == PutInit /\ [][PutNext]_vars

\* POST /votes, PUT /votes/:id and DELETE /votes/:id one request at a time, from a
\* feature without votes
SoloInit == InitWith({}, [requests |-> MaxSoloReq, logged |-> 1, ops |-> MaxOps,
                          features |-> NumFeatures])
SoloNext ==
    \/ \E u \in Users, f \in FeatureIds, t \in VoteTypes : PostVotes(1, u, f, t)
    \/ PostVotes_existingVotes(1)
    \/ PostVotes_write(1)
    \/ PostVotes_voteCounts(1)
    \/ \E u \in Users, id \in 1..nextId, t \in VoteTypes : PutVote(1, u, id, t)
    \/ PutVote_write(1)
    \/ PutVote_updatedVotes(1)
    \/ \E u \in Users, id \in 1..nextId : DeleteVote(1, u, id)
    \/ DeleteVote_write(1)
    \/ DeleteVote_respond(1)
    \/ TriggerCommit(1)
SoloSpec == SoloInit /\ [][SoloNext]_vars

\* POST /votes and the two read handlers of the Voting service, requests overlapping
LookInit ==
    \E vs \in {{}, SampleVotes} :
        InitWith(vs, [requests |-> MaxLookReq, logged |-> 1, ops |-> MaxOps,
                      features |-> NumFeatures])
LookNext ==
    \/ \E p \in Procs, u \in Users, f \in FeatureIds, t \in VoteTypes : PostVotes(p, u, f, t)
    \/ \E p \in Procs : PostVotes_existingVotes(p)
    \/ \E p \in Procs : PostVotes_write(p)
    \/ \E p \in Procs : PostVotes_voteCounts(p)
    \/ \E p \in Procs : TriggerCommit(p)
    \/ \E p \in Procs : DeadlockVictim(p)
    \/ \E p \in Procs, u \in Users \cup {0}, f \in FeatureIds : GetUserFeatureVote(p, u, f)
    \/ \E p \in Procs, u \in Users \cup {0}, f \in FeatureIds \cup {0} : GetVotes(p, u, f)
    \/ \E p \in Procs : GetVotes_count(p)
LookSpec == LookInit /\ [][LookNext]_vars

\* POST /votes and DELETE /votes/:id of the users and DELETE /features/:id of the owner,
\* requests overlapping
DelInit ==
    \E vs \in {{}, SampleVotes} :
        InitWith(vs, [requests |-> MaxDelReq, logged |-> 1, ops |-> MaxOps,
                      features |-> NumFeatures])
DelNext ==
    \/ \E p \in Procs, u \in Users, f \in FeatureIds, t \in VoteTypes : PostVotes(p, u, f, t)
    \/ \E p \in Procs : PostVotes_existingVotes(p)
    \/ \E p \in Procs : PostVotes_write(p)
    \/ \E p \in Procs : PostVotes_voteCounts(p)
    \/ \E p \in Procs, u \in Users, id \in 1..nextId : DeleteVote(p, u, id)
    \/ \E p \in Procs : DeleteVote_write(p)
    \/ \E p \in Procs : DeleteVote_respond(p)
    \/ \E p \in Procs : TriggerCommit(p)
    \/ \E p \in Procs : DeadlockVictim(p)
    \/ \E p \in Procs, u \in Users, f \in FeatureIds : DeleteFeature(p, u, f)
    \/ \E p \in Procs : DeleteFeature_write(p)
    \/ \E p \in Procs : DeleteFeature_deadlock(p)
DelSpec == DelInit /\ [][DelNext]_vars

\* POST /votes behind its limiter, one request at a time, with VOTE_RATE_LIMIT set to
\* RateLimit and either kind of window
RateInit ==
    \E b \in BOOLEAN :
        InitLimited({}, [requests |-> MaxRateReq, logged |-> 1, ops |-> MaxOps,
                         features |-> NumFeatures],
                    [NoHits EXCEPT !.max = RateLimit, !.perKey = b])
RateNext ==
    \/ \E u \in Users \ {Owner}, t \in VoteTypes : votingLimiter(1, u, 1, t)
    \/ PostVotes_existingVotes(1)
    \/ PostVotes_write(1)
    \/ PostVotes_voteCounts(1)
    \/ TriggerCommit(1)
    \/ Tick
RateSpec == RateInit /\ [][RateNext]_vars

\* the three vote handlers and the status change of the administrator, requests
\* overlapping, with bodies that may fail validation (feature id 0, a vote type
\* that is neither 'upvote' nor 'downvote')
ErrInit ==
    \E vs \in {{}, SampleVotes} :
        InitWith(vs, [requests |-> MaxErrReq, logged |-> 1, ops |-> MaxOps,
                      features |-> NumFeatures])
ErrNext ==
    \/ \E p \in Procs, u \in Users, f \in FeatureIds \cup {0},
          t \in VoteTypes \cup {"invalid"} : PostVotes(p, u, f, t)
    \/ \E p \in Procs : PostVotes_existingVotes(p)
    \/ \E p \in Procs : PostVotes_write(p)
    \/ \E p \in Procs : PostVotes_voteCounts(p)
    \/ \E p \in Procs, u \in Users, id \in 1..nextId, t \in VoteTypes \cup {"invalid"} :
          PutVote(p, u, id, t)
    \/ \E p \in Procs : PutVote_write(p)
    \/ \E p \in Procs : PutVote_updatedVotes(p)
    \/ \E p \in Procs, u \in Users, id \in 1..nextId : DeleteVote(p, u, id)
    \/ \E p \in Procs : DeleteVote_write(p)
    \/ \E p \in Procs : DeleteVote_respond(p)
    \/ \E p \in Procs : TriggerCommit(p)
    \/ \E p \in Procs : DeadlockVictim(p)
    \/ \E p \in Procs, f \in FeatureIds : PatchFeatureStatus(p, Owner, f, "archived")
ErrSpec == ErrInit /\ [][ErrNext]_vars

\* the three vote handlers on two features without votes, requests overlapping;
\* every feature id a request may name exists
IsoInit == InitWith({}, [requests |-> MaxIsoReq, logged |-> 1, ops |-> MaxOps,
                         features |-> NumFeatures + 1])
IsoNext ==
    \/ \E p \in Procs, u \in Users, f \in FeatureIds, t \in VoteTypes : PostVotes(p, u, f, t)
    \/ \E p \in Procs : PostVotes_existingVotes(p)
    \/ \E p \in Procs : PostVotes_write(p)
    \/ \E p \in Procs : PostVotes_voteCounts(p)
    \/ \E p \in Procs, u \in Users, id \in 1..nextId, t \in VoteTypes : PutVote(p, u, id, t)
    \/ \E p \in Procs : PutVote_write(p)
    \/ \E p \in Procs : PutVote_updatedVotes(p)
    \/ \E p \in Procs, u \in Users, id \in 1..nextId : DeleteVote(p, u, id)
    \/ \E p \in Procs : DeleteVote_write(p)
    \/ \E p \in Procs : DeleteVote_respond(p)
    \/ \E p \in Procs : TriggerCommit(p)
    \/ \E p \in Procs : DeadlockVictim(p)
IsoSpec == IsoInit /\ [][IsoNext]_vars

\* the vote handlers and one-operation batches of the administrator, one request
\* at a time, from counters of any value: they may disagree with the vote rows
HealInit ==
    \E vs \in {{}, SampleVotes}, up \in 0..MaxSkew, down \in 0..MaxSkew,
       total \in (0 - MaxSkew)..MaxSkew :
        /\ votes = vs
        /\ features = [f \in 1..NumFeatures |->
                         [NewFeature(Owner) EXCEPT !.upvotes_count = up,
                                                   !.downvotes_count = down,
                                                   !.votes_count = total]]
        /\ nextId = Cardinality(vs) + 1
        /\ pc = [p \in Procs |-> "idle"]
        /\ req = [p \in Procs |-> NoReq]
        /\ loc = [p \in Procs |-> NoLoc]
        /\ txn = [p \in Procs |-> NoTxn]
        /\ res = NoRes
        /\ nreq = 0
        /\ log = <<>>
        /\ limits = [requests |-> MaxHealReq, logged |-> 1, ops |-> MaxHealOps,
                     features |-> NumFeatures]
        /\ cache = EmptyCache
        /\ limiter = NoHits
HealNext ==
    \/ SoloNext
    \/ \E op \in BulkOps : PostVotesBulk(1, Owner, op)
    \/ PostVotesBulk_write(1)
    \/ PostVotesBulk_trigger(1)
    \/ PostVotesBulk_commit(1)
    \/ PostVotesBulk_rollback(1)
HealSpec == HealInit /\ [][HealNext]_vars

\* every operation of the two services that writes, one request at a time: the
\* vote handlers, the one-operation batches of the administrator, and the Feature service's
\* create, update and status change
OwnInit ==
    \E vs \in {{}, SampleVotes} :
        InitWith(vs, [requests |-> MaxOwnReq, logged |-> 1, ops |-> MaxHealOps,
                      features |-> NumFeatures])
OwnNext ==
    \/ HealNext
    \/ \E u \in Users, f \in FeatureIds, st \in Statuses : PatchFeatureStatus(1, u, f, st)
    \/ \E u \in Users, f \in FeatureIds, hasFields \in BOOLEAN : PutFeature(1, u, f, hasFields)
    \/ \E u \in Users : PostFeatures(1, u)
OwnSpec == OwnInit /\ [][OwnNext]_vars

\* ------------------------------------------------------------------ properties
Quiescent == \A p \in Procs : pc[p] = "idle"

RowsOf(u, f) == {r \in votes : r.user_id = u /\ r.feature_id = f}

LedgerCounts(f) ==
    [upvotes |-> VoteCounts(votes, f).upvotes,
     downvotes |-> VoteCounts(votes, f).downvotes,
     total |-> VoteCounts(votes, f).upvotes - VoteCounts(votes, f).downvotes]

\* C1: in every committed state the three counters of every feature equal the
\* aggregate of its vote rows (upvotes, downvotes, upvotes - downvotes)
CountersMatchLedger == \A f \in DOMAIN features : Counters(f) = LedgerCounts(f)

\* C2: no (user_id, feature_id) pair has more than one committed vote row
UniqueUserFeature ==
    \A a, b \in votes : (a.user_id = b.user_id /\ a.feature_id = b.feature_id) => a = b

\* an INSERT is about to run for a pair that already has a committed row
DuplicateInsertPending ==
    \E p \in Procs :
        /\ pc[p] = "cast_write"
        /\ loc[p].existing = NoRow
        /\ unique_user_feature_vote(votes, req[p].user, req[p].feature_id)

\* this step is the arrival of a cast_vote of user u for feature f
CastArrives(u, f) ==
    /\ nreq' = nreq + 1
    /\ \/ /\ pc' = pc
          /\ res'.op = "cast" /\ res'.user = u /\ res'.feature_id = f
       \/ \E p \in Procs :
            /\ pc[p] = "idle" /\ pc'[p] = "cast_existing"
            /\ req'[p].user = u /\ req'[p].feature_id = f

\* this step answers the arriving request with a 400 and writes nothing
RejectedWith(error) ==
    /\ pc' = pc
    /\ res'.status = 400 /\ res'.error = error
    /\ UNCHANGED <<votes, features, nextId, txn>>

ArchivedRejectsEveryCaller ==
    [][\A u \in Users, f \in DOMAIN features :
          (CastArrives(u, f) /\ features[f].status = "archived")
             => RejectedWith("Cannot vote on archived features")]_vars

\* C4 amended: a cast_vote that reads the feature as archived writes nothing and is
\* answered 400: with the archived-feature error when the caller is not the owner,
\* with the self-vote error when the caller is the owner
ArchivedRejectsCast ==
    [][\A u \in Users, f \in DOMAIN features :
          (CastArrives(u, f) /\ features[f].status = "archived")
             => RejectedWith(IF features[f].user_id = u
                             THEN "Cannot vote on your own feature"
                             ELSE "Cannot vote on archived features")]_vars

\* a user who has a vote on the feature was refused because it is archived
ArchivedRefusedVoter ==
    /\ res.op = "cast" /\ res.status = 400
    /\ res.error = "Cannot vote on archived features"
    /\ RowsOf(res.user, res.feature_id) # {}

\* the responses logged so far
Logged == 1..Len(log)
Succeeded == {i \in Logged : log[i].status = 200}
WithAction(a) == {i \in Succeeded : log[i].action = a}

\* C5: however the same user's upvotes for one feature overlap, the pair never
\* has two rows, and once all calls have ended the counters equal the aggregate
\* of the ledger
RaceEndsConsistent ==
    /\ Cardinality(RowsOf(RaceUser, 1)) <= 1
    /\ Quiescent => CountersMatchLedger

\* all calls have ended, and one of them lost the race for the insert
RaceLostInsert ==
    /\ Quiescent
    /\ nreq = MaxRaceReq
    /\ \E i \in Logged : log[i].status = 500

\* C6: the rejection of the second insert is not exposed: no cast_vote of the
\* racing calls is answered with a failure
RaceNeverFails == \A i \in Logged : log[i].status # 500

\* C7: the actions returned by the calls that succeeded, and the final row, are
\* those of running these calls one at a time: from no vote, identical upvotes
\* alternate created, removed, created, ..
RaceIsSerial ==
    Quiescent =>
        LET n == Cardinality(Succeeded)
        IN  /\ Cardinality(WithAction("created")) = (n + 1) \div 2
            /\ Cardinality(WithAction("removed")) = n \div 2
            /\ (RowsOf(RaceUser, 1) # {}) <=> (n % 2 = 1)

\* responses i and i+1 are two successful cast_vote calls of one user for one
\* feature, each run with no other request in flight, the second the last request
\* there was; the first found no vote of the user
TwoCasts(i, t1, t2) ==
    /\ i + 1 = Len(log) /\ Quiescent
    /\ \A j \in {i, i + 1} : log[j].op = "cast" /\ log[j].status = 200 /\ log[j].solo
    /\ log[i].user = log[i + 1].user
    /\ log[i].feature_id = log[i + 1].feature_id
    /\ log[i].action = "created"
    /\ log[i].asked = t1 /\ log[i + 1].asked = t2

\* C8: the same vote cast twice in a row leaves no row of the user and the
\* feature's counters as they were before the first call
ToggleRoundTrip ==
    \A i \in Logged, t \in VoteTypes :
        TwoCasts(i, t, t) =>
            /\ RowsOf(log[i].user, log[i].feature_id) = {}
            /\ Counters(log[i].feature_id) = log[i].before

Other(t) == IF t = "upvote" THEN "downvote" ELSE "upvote"

\* C9: a vote cast and then cast with the other type leaves one row of the new
\* type, the counter of the first type as before the first call and the counter
\* of the new type one greater than before the first call
FlipCounts ==
    \A i \in Logged, t \in VoteTypes :
        TwoCasts(i, Other(t), t) =>
            LET f == log[i].feature_id
                now == Counters(f)
                was == log[i].before
            IN  /\ \E r \in votes : RowsOf(log[i].user, f) = {r} /\ r.vote_type = t
                /\ IF t = "downvote"
                   THEN now.upvotes = was.upvotes /\ now.downvotes = was.downvotes + 1
                   ELSE now.downvotes = was.downvotes /\ now.upvotes = was.upvotes + 1

\* the scenario: feature 1 of user 1 without votes; user 2 upvotes, user 3
\* downvotes, user 2 downvotes, user 3 downvotes
ScenarioCalls ==
    <<[user |-> 2, vote_type |-> "upvote"], [user |-> 3, vote_type |-> "downvote"],
      [user |-> 2, vote_type |-> "downvote"], [user |-> 3, vote_type |-> "downvote"]>>
ScenarioReplies ==
    <<[action |-> "created", upvotes |-> 1, downvotes |-> 0, total |-> 1],
      [action |-> "created", upvotes |-> 1, downvotes |-> 1, total |-> 0],
      [action |-> "updated", upvotes |-> 0, downvotes |-> 2, total |-> 0 - 2],
      [action |-> "removed", upvotes |-> 0, downvotes |-> 1, total |-> 0 - 1]>>

\* the first k responses are those to the first k calls of the scenario
ScenarioPlayed(k) ==
    /\ k <= Len(log)
    /\ \A j \in 1..k :
          /\ log[j].op = "cast" /\ log[j].feature_id = 1
          /\ log[j].user = ScenarioCalls[j].user
          /\ log[j].asked = ScenarioCalls[j].vote_type

\* C10: the four calls of the scenario are answered created (1, 0, 1), then
\* counts (1, 1, 0), then updated (0, 2, -2), then removed (0, 1, -1)
ScenarioAnswers ==
    \A k \in 1..Len(ScenarioCalls) :
        ScenarioPlayed(k) =>
            /\ log[k].status = 200
            /\ log[k].action = ScenarioReplies[k].action
            /\ log[k].upvotes = ScenarioReplies[k].upvotes
            /\ log[k].downvotes = ScenarioReplies[k].downvotes
            /\ log[k].total = ScenarioReplies[k].total

\* the whole scenario has been played
ScenarioDone == ScenarioPlayed(Len(ScenarioCalls))

\* the handler in slot p holds a read of (user, feature) that is still the
\* committed state of the pair: nobody wrote the pair since
ReadIsCurrent(p) ==
    RowsOf(req[p].user, req[p].feature_id)
        = (IF loc[p].existing = NoRow THEN {} ELSE {loc[p].existing})

\* this step commits the ledger write of the cast_vote in slot p
CastCommits(p) ==
    /\ pc[p] \in {"cast_write", "cast_trig"}
    /\ pc'[p] = "cast_counts"

\* the ledger change of the three-way branch, with the action it reports
BranchOutcome(p) ==
    LET e == loc[p].existing
        t == req[p].vote_type
    IN  IF e = NoRow
        THEN /\ loc'[p].action = "created"
             /\ \E id \in 1..nextId :
                  LET new == [id |-> id, user_id |-> req[p].user,
                              feature_id |-> req[p].feature_id, vote_type |-> t]
                  IN  new \notin votes /\ votes' = votes \cup {new}
        ELSE IF e.vote_type = t
        THEN /\ loc'[p].action = "removed"
             /\ votes' = votes \ {e}
        ELSE /\ loc'[p].action = "updated"
             /\ votes' = (votes \ {e}) \cup {[e EXCEPT !.vote_type = t]}

\* this step is the answer of the cast_vote in slot p that wrote the ledger
CastAnswers(p) == pc[p] = "cast_counts" /\ pc'[p] = "idle"

\* C11: a cast_vote whose read of (u, f) nobody overtook inserts a row of type t
\* and reports created when the pair had no row, deletes the row and reports
\* removed with no vote_type when the row had type t, changes the type of the same
\* row and reports updated otherwise; no other row changes, and the answer carries
\* the action of the write
ThreeWayBranch ==
    [][\A p \in Procs :
          /\ (CastCommits(p) /\ ReadIsCurrent(p)) => BranchOutcome(p)
          /\ CastAnswers(p) =>
                /\ votes' = votes
                /\ res'.status = 200
                /\ res'.action = loc[p].action
                /\ res'.vote_type = (IF loc[p].action = "removed" THEN "none"
                                     ELSE req[p].vote_type)]_vars

\* a vote was changed in place and then removed by the next call
BranchUpdatedThenRemoved ==
    /\ Len(log) = 2
    /\ log[1].status = 200 /\ log[1].action = "updated"
    /\ log[2].status = 200 /\ log[2].action = "removed"
    /\ log[1].user = log[2].user

\* C12: the vote_counts a successful cast_vote returns are the counters its own
\* trigger recomputed and persisted with its ledger write, also when other users
\* vote on the feature at the same time
AnswerIsOwnRecompute ==
    [][\A p \in Procs :
          (CastAnswers(p) /\ loc[p].wrote # {}) =>
              loc[p].wrote = {[feature_id |-> req[p].feature_id,
                               upvotes |-> res'.upvotes,
                               downvotes |-> res'.downvotes]}]_vars

\* C13: a cast_vote that succeeded (it reports an action) is answered with HTTP
\* status 201
CastAnswered201 ==
    (res.op = "cast" /\ res.action # "none") => res.status = 201

\* C14: a read of the feature through GET /features/:id that follows a successful
\* upvote returns the counters that include the vote: those the vote's own answer
\* reported (the requests run one at a time)
ReadAfterVoteSeesIt ==
    \A i \in Logged :
        (/\ i < Len(log)
         /\ log[i].op = "cast" /\ log[i].status = 200
         /\ log[i].asked = "upvote" /\ log[i].action \in {"created", "updated"}
         /\ log[i + 1].op = "get" /\ log[i + 1].status = 200
         /\ log[i + 1].feature_id = log[i].feature_id)
        => /\ log[i + 1].total = log[i].total
           /\ log[i + 1].upvotes = log[i].upvotes

\* the operation the batch in slot p runs next is an update, with its fields, of a
\* vote id that has no row
UpdatesMissingVote(p) ==
    /\ pc[p] = "bulk_write"
    /\ loc[p].op.action = "update"
    /\ loc[p].op.vote_id # 0 /\ loc[p].op.vote_type # "none"
    /\ \A r \in CurrentRows(p) : r.id # loc[p].op.vote_id

\* this step records the outcome of the operation of the batch in slot p
BulkRecords(p, success) ==
    /\ Len(loc'[p].results) = Len(loc[p].results) + 1
    /\ loc'[p].results[Len(loc'[p].results)].success = success

\* C15: a bulk update whose vote_id references no existing row is recorded with
\* success false
BulkUpdateOfMissingFails ==
    [][\A p \in Procs :
          (UpdatesMissingVote(p) /\ loc'[p].results # loc[p].results)
              => BulkRecords(p, FALSE)]_vars

\* C16: the effects of the operations a batch has recorded as successful are
\* committed: a batch that holds uncommitted writes of recorded operations and is
\* about to run its next operation never loses them
BulkKeepsSuccesses ==
    [][\A p \in Procs :
          (/\ pc[p] = "bulk_write"
           /\ txn[p].wr # {}
           /\ \E i \in 1..Len(loc[p].results) : loc[p].results[i].success)
              => txn'[p].wr # {}]_vars

\* C17: a batch whose commit fails answers 500 with no result list, and nothing it
\* did is stored: the step changes no vote row and no feature counter, and no
\* statement of the batch had committed on its own before
BulkFailureRollsBack ==
    [][\A p \in Procs :
          (pc[p] = "bulk_commit" /\ pc'[p] = "idle" /\ res'.status = 500)
              => /\ votes' = votes
                 /\ features' = features
                 /\ res'.results = <<>>
                 /\ ~txn[p].kept]_vars

\* C18: a bulk request of a caller who is not an administrator is answered 403
\* 'Admin access required' in the step it arrives: it never enters the
\* operation loop, no vote row and no counter changes, and no connection begins a
\* transaction
BulkNeedsAdmin ==
    [][/\ \A p \in Procs :
            (req[p].op = "none" /\ req'[p].op = "bulk") => req'[p].user \in Admins
       /\ (nreq' # nreq /\ pc' = pc /\ res'.op = "bulk")
            => /\ res'.user \notin Admins
               /\ res'.status = 403
               /\ res'.error = "Admin access required"
               /\ res'.results = <<>>
               /\ votes' = votes
               /\ features' = features
               /\ txn' = txn]_vars

BulkRefused == res.op = "bulk" /\ res.status = 403 /\ res.user \notin Admins /\ nreq = 1

\* C19: PUT /votes/:id asking for the type the caller's vote already has is
\* answered 400 'Vote type is already set to this value' in the step it arrives:
\* no statement writes, the row and the counters stay as they are; and a request
\* goes on to its UPDATE only when the type it asks for differs from the row's
PutSameTypeRejected ==
    [][/\ \A p \in Procs :
            (req[p].op = "none" /\ req'[p].op = "update")
                => \E v \in votes : /\ v.id = req'[p].vote_id
                                    /\ v.user_id = req'[p].user
                                    /\ v.vote_type # req'[p].vote_type
       /\ (/\ nreq' # nreq /\ pc' = pc /\ res'.op = "update"
           /\ \E v \in votes : /\ v.id = res'.vote_id
                               /\ v.user_id = res'.user
                               /\ v.vote_type = res'.asked)
            => /\ res'.status = 400
               /\ res'.error = "Vote type is already set to this value"
               /\ res'.vote = NoRow
               /\ votes' = votes
               /\ features' = features
               /\ txn' = txn]_vars

PutSameTypeRefused ==
    /\ res.op = "update" /\ res.status = 400
    /\ \E v \in votes : v.id = res.vote_id /\ v.user_id = res.user /\ v.vote_type = res.asked

\* C20: when PUT /votes/:id answers 200, a row with the request's vote id owned
\* by the caller is stored, and the answer carries that row
UpdateReturnsRow ==
    [][\A p \in Procs :
          (pc[p] = "put_updated" /\ pc'[p] = "idle" /\ res'.status = 200)
              => \E v \in votes' : /\ v.id = res'.vote_id
                                   /\ v.user_id = res'.user
                                   /\ res'.vote = v]_vars

\* this step is the arrival of an update_vote or remove_vote (op) of user u on
\* vote id
VoteCallArrives(op, u, id) ==
    /\ nreq' = nreq + 1
    /\ \/ /\ pc' = pc
          /\ res'.op = op /\ res'.user = u /\ res'.vote_id = id
       \/ \E p \in Procs :
            /\ pc[p] = "idle" /\ pc'[p] # "idle"
            /\ req'[p].op = op /\ req'[p].user = u /\ req'[p].vote_id = id

\* this step answers the arriving request with 404 and writes nothing
AnsweredNotFound ==
    /\ pc' = pc
    /\ res'.status = 404 /\ res'.error = "Vote not found or access denied"
    /\ UNCHANGED <<votes, features, nextId, txn>>

\* C21: update_vote and remove_vote on a vote id that has no row, or whose row is
\* another user's, are answered 404 and change no vote row and no counter
NotOwnedIsNotFound ==
    [][\A op \in {"update", "remove"}, u \in Users, id \in 1..nextId :
          (VoteCallArrives(op, u, id) /\ ~\E v \in votes : v.id = id /\ v.user_id = u)
             => AnsweredNotFound]_vars

\* a removal of another user's vote was refused
ForeignRemovalRefused ==
    /\ res.op = "remove" /\ res.status = 404
    /\ \E v \in votes : v.id = res.vote_id /\ v.user_id # res.user

\* what the caller receives: the response without the fields of the request
Body(r) ==
    [r EXCEPT !.user = 0, !.vote_id = 0, !.feature_id = 0, !.asked = "none",
              !.solo = FALSE, !.before = NoCounts]

\* C22: update_vote and remove_vote on another user's vote are answered in the
\* arrival step, and with the status and body the same operation gave for a vote
\* id that never had a row
NotFoundHidesOwner ==
    [][\A op \in {"update", "remove"}, u \in Users, id \in 1..nextId :
          (/\ VoteCallArrives(op, u, id)
           /\ \E v \in votes : v.id = id /\ v.user_id # u
           /\ res.op = op /\ res.vote_id >= nextId)
             => (pc' = pc /\ Body(res') = Body(res))]_vars

\* a caller asked to update a vote id without a row, then another user's vote, and
\* got the same answer twice
ForeignLooksMissing ==
    /\ Len(log) = 2
    /\ log[1].op = "update" /\ log[1].vote_id >= nextId
    /\ log[2].op = "update" /\ log[2].user = log[1].user
    /\ \E v \in votes : v.id = log[2].vote_id /\ v.user_id # log[2].user
    /\ Body(log[2]) = Body(log[1])

ArrivingCall ==
    IF pc' = pc
    THEN [op |-> res'.op, user |-> res'.user, feature_id |-> res'.feature_id,
          vote_id |-> res'.vote_id, vote_type |-> res'.asked]
    ELSE LET p == CHOOSE q \in Procs : pc[q] = "idle" /\ pc'[q] # "idle"
         IN  [op |-> req'[p].op, user |-> req'[p].user, feature_id |-> req'[p].feature_id,
              vote_id |-> req'[p].vote_id, vote_type |-> req'[p].vote_type]

\* the call breaks a validation or business rule in the state it arrives in
BreaksRule(c) ==
    LET own == {v \in votes : v.id = c.vote_id /\ v.user_id = c.user}
    IN  CASE c.op = "cast" ->
               \/ c.vote_type \notin VoteTypes
               \/ c.feature_id \notin DOMAIN features
               \/ features[c.feature_id].user_id = c.user
               \/ features[c.feature_id].status = "archived"
          [] c.op = "update" ->
               \/ c.vote_type \notin VoteTypes
               \/ own = {}
               \/ \E v \in own : v.vote_type = c.vote_type
          [] c.op = "remove" -> own = {}
          [] OTHER -> FALSE

\* C24: a cast_vote, update_vote or remove_vote that breaks a validation or
\* business rule is answered 400 or 404 in the step it arrives, before any
\* statement that writes, with the vote rows, the counters and every transaction
\* unchanged; and no handler that has gone on to its statements ends with 400 or 404
ErrorsWriteNothing ==
    [][/\ (nreq' # nreq /\ BreaksRule(ArrivingCall))
            => /\ pc' = pc
               /\ res'.status \in {400, 404}
               /\ UNCHANGED <<votes, features, nextId, txn>>
       /\ \A p \in Procs :
            (pc[p] # "idle" /\ pc'[p] = "idle" /\ res'.op \in {"cast", "update", "remove"})
                => res'.status \notin {400, 404}]_vars

\* a body that fails validation was refused on a feature that has votes
InvalidBodyRefused ==
    /\ res.op = "cast" /\ res.status = 400 /\ res.error = "Validation failed"
    /\ res.asked \notin VoteTypes
    /\ \E v \in votes : v.feature_id = res.feature_id

\* the rows of feature f among rows
OfFeature(rows, f) == {r \in rows : r.feature_id = f}

\* C25: every step of a cast_vote, update_vote or remove_vote on feature A leaves
\* the rows and the feature row of every other feature as they were; the request
\* writes rows of A only, and the counters its trigger is about to write are those
\* of A, counted over the rows of A alone in the trigger's read
OtherFeaturesUntouched ==
    [][\A p \in Procs :
          LET A == req[p].feature_id
              read == OfFeature(ApplyWrites(ReadView(p), txn'[p].wr), A)
          IN  (req[p].op \in {"cast", "update", "remove"} /\ pc'[p] # pc[p])
                 => /\ \A B \in DOMAIN features \ {A} :
                         /\ features'[B] = features[B]
                         /\ OfFeature(votes', B) = OfFeature(votes, B)
                    /\ \A w \in txn'[p].wr : w.row.feature_id = A
                    /\ \A t \in txn'[p].trig :
                         /\ t.feature_id = A
                         /\ t.upvotes = Cardinality({r \in read : r.vote_type = "upvote"})
                         /\ t.downvotes =
                              Cardinality({r \in read : r.vote_type = "downvote"})]_vars

\* a vote of one feature was removed while another feature has a vote
RemovedBesideOtherFeature ==
    /\ res.op = "remove" /\ res.status = 200
    /\ \E v \in votes : v.feature_id # res.feature_id
    /\ \A f \in DOMAIN features : Counters(f) = LedgerCounts(f)

\* C26: while a feature is archived no step changes the vote rows of the feature or
\* its three counters
ArchivedIsFrozen ==
    [][\A f \in DOMAIN features :
          features[f].status = "archived"
              => /\ OfFeature(votes', f) = OfFeature(votes, f)
                 /\ features'[f].votes_count = features[f].votes_count
                 /\ features'[f].upvotes_count = features[f].upvotes_count
                 /\ features'[f].downvotes_count = features[f].downvotes_count]_vars

\* C27: no stored vote row belongs to the user who owns the feature it names
NoSelfVoteRows ==
    \A v \in votes :
        v.feature_id \in DOMAIN features => features[v.feature_id].user_id # v.user_id

\* this step commits the row changes of a statement (or batch) of slot p
StatementCommits(p) ==
    /\ txn[p].wr # {} /\ txn'[p].wr = {}
    /\ ~(pc'[p] = "idle" /\ res'.status = 500)

\* the stored counters of feature f after the step equal the count of its rows
HealedAfter(f) ==
    /\ features'[f].upvotes_count = VoteCounts(votes', f).upvotes
    /\ features'[f].downvotes_count = VoteCounts(votes', f).downvotes
    /\ features'[f].votes_count = VoteCounts(votes', f).upvotes - VoteCounts(votes', f).downvotes

\* C28 as stated: whatever the counters were, once an INSERT, DELETE or UPDATE of a
\* vote of the feature has committed with no other request running, the feature's
\* three counters equal the count of its rows
HealsAfterAnyWrite ==
    [][\A p \in Procs :
          StatementCommits(p)
              => \A w \in txn[p].wr :
                    w.row.feature_id \in DOMAIN features => HealedAfter(w.row.feature_id)]_vars

\* C28 amended: the same for an INSERT, a DELETE, and an UPDATE that changes the
\* vote's type; an UPDATE that leaves the type as it was recomputes nothing
HealsAfterChange ==
    [][\A p \in Procs :
          StatementCommits(p)
              => \A w \in txn[p].wr :
                    (/\ w.row.feature_id \in DOMAIN features
                     /\ (w.kind = "upd" => w.row \notin votes))
                        => HealedAfter(w.row.feature_id)]_vars

\* a first vote was cast on a feature whose counters were wrong, and they are right
HealedByInsert ==
    /\ nreq = 1 /\ res.op = "cast" /\ res.action = "created"
    /\ res.before # NoCounts
    /\ Cardinality(votes) = 1
    /\ Counters(res.feature_id) = LedgerCounts(res.feature_id)

\* the three counters of a feature row
CountersOf(feature) ==
    [upvotes |-> feature.upvotes_count, downvotes |-> feature.downvotes_count,
     total |-> feature.votes_count]

\* C29: a created feature starts with its three counters at 0, and the counters of
\* a feature change only in a step that commits a statement on a vote row of that
\* feature together with its trigger's UPDATE features; the new values are the
\* ones the trigger counted.  No other step of the Voting service, the bulk runner
\* or the Feature service (create, update, status change) changes them
CountersOnlyByRecompute ==
    [][/\ \A f \in DOMAIN features' \ DOMAIN features :
            CountersOf(features'[f]) = NoCounts
       /\ \A f \in DOMAIN features :
            CountersOf(features'[f]) # CountersOf(features[f])
                => \E p \in Procs :
                      /\ \E w \in txn[p].wr : w.row.feature_id = f
                      /\ \E t \in txn[p].trig \cup txn[p].fw :
                            /\ t.feature_id = f
                            /\ CountersOf(features'[f]) =
                                 [upvotes |-> t.upvotes, downvotes |-> t.downvotes,
                                  total |-> t.upvotes - t.downvotes]]_vars

\* the status of a feature that has votes was changed and its counters still count
\* them
StatusChangedKeepsCounters ==
    /\ res.op = "status" /\ res.status = 200
    /\ res.feature_id \in DOMAIN features
    /\ features[res.feature_id].status # "pending"
    /\ OfFeature(votes, res.feature_id) # {}
    /\ Counters(res.feature_id) = LedgerCounts(res.feature_id)

\* the requests of key k that passed the limiter at a time of the window from t on
PassedIn(lt, k, t) ==
    {i \in DOMAIN lt.passed[k] : lt.passed[k][i] \in t..(t + WindowTicks - 1)}

\* C30: in any window of 60 seconds at most VOTE_RATE_LIMIT POST /votes requests of one
\* key reach the handler, and every further one is answered 429 with retryAfter and
\* changes neither the votes nor any counter
AtMostLimitPerWindow ==
    [][/\ \A k \in Users, t \in 0..MaxTicks :
             Cardinality(PassedIn(limiter', k, t)) <= limiter'.max
       /\ \A k \in Users :
             /\ nreq' = nreq + 1
             /\ limiter'.passed[k] = limiter.passed[k]
             /\ limiter'.hits[k] # limiter.hits[k] \/ limiter'.resetAt[k] # limiter.resetAt[k]
             => /\ res'.status = 429
                /\ res'.retryAfter > 0
                /\ votes' = votes
                /\ features' = features]_vars

\* the status changes the state machine allows
AllowedStep(old, new) ==
    \/ old = "pending" /\ new \in {"approved", "rejected", "archived"}
    \/ old = "approved" /\ new \in {"implemented", "archived", "pending"}
    \/ old = "rejected" /\ new \in {"pending", "archived"}
    \/ old = "implemented" /\ new = "archived"

\* C31: a feature's status changes only along the allowed transitions, a refused
\* status update leaves the feature rows as they were, and an archived feature stays
\* archived
StatusFollowsTransitions ==
    [][/\ \A f \in DOMAIN features :
             /\ f \in DOMAIN features'
             /\ features'[f].status # features[f].status
                  => AllowedStep(features[f].status, features'[f].status)
             /\ features[f].status = "archived" => features'[f].status = "archived"
       /\ nreq' = nreq + 1 /\ res'.op = "status" /\ res'.status # 200
             => features' = features]_vars

\* the administrator asked for another status of an archived feature and was refused
ArchivedChangeRefused ==
    /\ res.op = "status"
    /\ res.user \in Admins
    /\ res.status = 500
    /\ res.feature_id \in DOMAIN features
    /\ features[res.feature_id].status = "archived"

\* C32: the lookup of (u, f) answers with the vote row of user u on feature f when the
\* votes hold one and with 404 exactly when they hold none, and neither the lookup
\* nor the list changes the votes or a counter
LookupFindsTheVote ==
    [][/\ nreq' = nreq + 1 /\ pc' = pc /\ res'.op = "lookup" /\ res'.user >= 1
             => /\ votes' = votes /\ features' = features
                /\ res'.status = 404 <=> RowsOf(res'.user, res'.feature_id) = {}
                /\ res'.status # 404
                      => /\ res'.status = 200
                         /\ res'.vote \in RowsOf(res'.user, res'.feature_id)
       /\ (\E p \in Procs : <<pc[p], pc'[p]>> \in {<<"idle", "list_count">>,
                                                      <<"list_count", "idle">>})
             => votes' = votes /\ features' = features]_vars

\* a lookup found the vote a user had cast before
LookupFoundCastVote ==
    /\ res.op = "lookup"
    /\ res.status = 200
    /\ res.vote \in votes
    /\ res.vote.id > Cardinality(SampleVotes)

WrittenBy(p) ==
    {w.row : w \in txn'[p].wr \ txn[p].wr} \cup (votes \ votes') \cup (votes' \ votes)

\* C34: a step of a cast_vote, update_vote or remove_vote of user u writes no vote
\* row of another user, whatever runs beside it; a step that writes another user's
\* row is a step of the administrator's batch
OnlyOwnRowsWritten ==
    [][\A p \in Procs :
          (pc'[p] # pc[p] \/ txn'[p] # txn[p])
             => \A v \in WrittenBy(p) :
                   \/ req[p].op \in {"cast", "update", "remove"} /\ v.user_id = req[p].user
                   \/ req[p].op = "bulk" /\ req[p].user \in Admins]_vars

\* a user removed their own vote and another user's vote is still there
RemovedOwnBesideOthers ==
    /\ res.op = "remove"
    /\ res.status = 200
    /\ \E v \in votes : v.user_id # res.user

\* slot p runs a batch that holds a connection
InBatch(p) == req[p].op = "bulk" /\ txn[p].conn

\* C35: a batch that took a connection and began a transaction ends that
\* transaction once, by commit or by rollback, gives the connection back once, when
\* it answers and not before, and does answer, whether its operations succeed or
\* fail and whether or not the commit fails
BulkEndsAndReleasesOnce ==
    /\ [][\A p \in Procs :
            /\ InBatch(p) /\ pc'[p] # "idle"
                  => txn'[p].conn /\ txn'[p].releases = 0 /\ txn'[p].ends <= 1
            /\ InBatch(p) /\ pc'[p] = "idle"
                  => /\ res'.op = "bulk" /\ res'.status \in {200, 500}
                     /\ res'.ended = 1 /\ res'.released = 1
                     /\ txn'[p] = NoTxn]_vars
    /\ \A p \in Procs : InBatch(p) ~> pc[p] = "idle"

\* a batch whose commit failed has rolled back, released its connection and answered
BatchRolledBackAndReleased ==
    /\ res.op = "bulk"
    /\ res.status = 500
    /\ res.ended = 1
    /\ res.released = 1
    /\ \A p \in Procs : ~txn[p].conn

\* C36: every vote row is a vote on an existing feature: the deletion of a feature
\* takes its vote rows along, and a cast_vote that found the feature before it was
\* deleted leaves no row for it
VotesReferenceFeatures ==
    \A v \in votes : v.feature_id \in DOMAIN features

\* a cast_vote that had found the feature failed because the feature was deleted
\* before its INSERT
CastLostItsFeature ==
    /\ res.op = "cast"
    /\ res.status = 500
    /\ res.feature_id \notin DOMAIN features
    /\ votes = {}

\* the operation lacks a field its action needs
LacksField(op) ==
    \/ op.action = "create" /\ (op.feature_id = 0 \/ op.vote_type = "none")
    \/ op.action = "update" /\ (op.vote_id = 0 \/ op.vote_type = "none")
    \/ op.action = "delete" /\ op.vote_id = 0

\* C37: a batch's operation without the fields its action needs writes no vote row
\* and no counter, is recorded with success false, and the batch goes on with its
\* transaction open
IncompleteOpSkipped ==
    [][\A p \in Procs :
          /\ pc[p] = "bulk_write"
          /\ LacksField(loc[p].op)
          /\ loc'[p] # loc[p]
          => /\ votes' = votes /\ features' = features /\ txn' = txn /\ nextId' = nextId
             /\ loc'[p].results =
                  Append(loc[p].results, [action |-> loc[p].op.action, success |-> FALSE])
             /\ pc'[p] \in {"bulk_write", "bulk_commit"}]_vars

\* the batch answered: its first operation lacked its fields and failed, and the
\* create after it stored the administrator's vote
CreatedAfterIncompleteOp ==
    /\ res.op = "bulk"
    /\ res.status = 200
    /\ Len(res.results) >= 2
    /\ res.results[1] = [action |-> "update", success |-> FALSE]
    /\ res.results[2] = [action |-> "create", success |-> TRUE]
    /\ \E v \in votes : v.user_id = res.user

====
